---- MODULE Spec2Model ----
(***************************************************************************)
(* A model of the sec_nlp summarization pipeline:                          *)
(*   - SummaryPayload.validate_from_json and the runnable's _validate      *)
(*     (sec_nlp/core/llm/chains.py), over raw model responses;             *)
(*   - Pipeline.run (sec_nlp/core/pipeline.py) with its collaborators      *)
(*     (downloader, preprocessor, vector store, summarization graph).      *)
(*                                                                         *)
(* Python values are represented as follows.                               *)
(*   str            a sequence of one-character strings; a raw model       *)
(*                  response is a str whose elements are JSON tokens       *)
(*   Optional[T]    None is <<>>, a present value x is <<x>>               *)
(*   float          confidence is counted in tenths (0.5 is 5)             *)
(*   decoded JSON   a record [t |-> tag, v |-> value]                      *)
(***************************************************************************)
EXTENDS Integers, Sequences, FiniteSets, TLC

\* ------------------------------------------------------------------------
\* Bounds of the model
\* ------------------------------------------------------------------------

\* Longest "points" array a raw model response carries.
MaxPoints == 2

\* Most validate_from_json calls made on one raw response.
MaxCalls == 2

\* Most chunks the preprocessor returns, all documents together.
MaxChunks == 4

\* The same, when run is called more than once.
MaxSessionChunks == 2

\* ------------------------------------------------------------------------
\* Optional values and strings
\* ------------------------------------------------------------------------

None == <<>>

Some(x) == <<x>>

IsNone(o) == Len(o) = 0

IsSome(o) == Len(o) = 1

Get(o) == o[1]

IsSpace(c) == c = " "

RECURSIVE LStrip(_)
LStrip(s) ==
    IF Len(s) > 0 /\ IsSpace(Head(s)) THEN LStrip(Tail(s)) ELSE s

RECURSIVE RStrip(_)
RStrip(s) ==
    IF Len(s) > 0 /\ IsSpace(s[Len(s)])
    THEN RStrip(SubSeq(s, 1, Len(s) - 1))
    ELSE s

\* str.strip()
Strip(s) == RStrip(LStrip(s))

\* All sequences over S of length at most n.
RECURSIVE SeqsUpTo(_, _)
SeqsUpTo(S, n) ==
    IF n = 0 THEN {<<>>}
    ELSE LET shorter == SeqsUpTo(S, n - 1)
         IN  shorter \cup {Append(q, x) : q \in {r \in shorter : Len(r) = n - 1}, x \in S}

\* ------------------------------------------------------------------------
\* Decoded JSON values (what json.loads returns)
\* ------------------------------------------------------------------------

JNull == [t |-> "null", v |-> <<>>]

JNum(n) == [t |-> "num", v |-> n]

JStr(s) == [t |-> "str", v |-> s]

JList(items) == [t |-> "list", v |-> items]

\* A dict is its members in source order, each <<key, value>>; a later
\* member with the same key wins, as in Python.
JDict(members) == [t |-> "dict", v |-> members]

IsStr(x) == x.t = "str"

IsList(x) == x.t = "list"

IsDict(x) == x.t = "dict"

RECURSIVE DictGet(_, _)
\* dict.get(key): the value of the last member named key, else None (JNull).
DictGet(members, key) ==
    IF Len(members) = 0 THEN JNull
    ELSE LET last == members[Len(members)]
         IN  IF last[1] = key THEN last[2]
             ELSE DictGet(SubSeq(members, 1, Len(members) - 1), key)

\* data[key] = value
DictSet(members, key, value) == Append(members, <<key, value>>)

\* ------------------------------------------------------------------------
\* json.loads over token sequences
\* ------------------------------------------------------------------------

Q == "\""

NumTokens == {"-0.1", "0", "0.5", "0.9", "1.0", "1.1", "2.0"}

\* The number a numeric token denotes, in tenths.
NumVal(tok) ==
    CASE tok = "-0.1" -> -1
      [] tok = "0"    -> 0
      [] tok = "0.5"  -> 5
      [] tok = "0.9"  -> 9
      [] tok = "1.0"  -> 10
      [] tok = "1.1"  -> 11
      [] tok = "2.0"  -> 20

ParseFail == [ok |-> FALSE, val |-> JNull, next |-> 0]

ParseOk(val, next) == [ok |-> TRUE, val |-> val, next |-> next]

RECURSIVE SkipWs(_, _)
SkipWs(s, i) == IF i <= Len(s) /\ IsSpace(s[i]) THEN SkipWs(s, i + 1) ELSE i

RECURSIVE ScanString(_, _, _)
\* The characters up to the closing quote; i is just after the opening one.
ScanString(s, i, acc) ==
    IF i > Len(s) THEN ParseFail
    ELSE IF s[i] = Q THEN ParseOk(JStr(acc), i + 1)
    ELSE ScanString(s, i + 1, Append(acc, s[i]))

RECURSIVE ParseValue(_, _)
RECURSIVE ParseElems(_, _, _)
RECURSIVE ParseMembers(_, _, _)

ParseValue(s, i0) ==
    LET i == SkipWs(s, i0)
    IN  IF i > Len(s) THEN ParseFail
        ELSE IF s[i] = "null" THEN ParseOk(JNull, i + 1)
        ELSE IF s[i] \in NumTokens THEN ParseOk(JNum(NumVal(s[i])), i + 1)
        ELSE IF s[i] = Q THEN ScanString(s, i + 1, <<>>)
        ELSE IF s[i] = "[" THEN
            LET j == SkipWs(s, i + 1)
            IN  IF j <= Len(s) /\ s[j] = "]" THEN ParseOk(JList(<<>>), j + 1)
                ELSE ParseElems(s, i + 1, <<>>)
        ELSE IF s[i] = "{" THEN
            LET j == SkipWs(s, i + 1)
            IN  IF j <= Len(s) /\ s[j] = "}" THEN ParseOk(JDict(<<>>), j + 1)
                ELSE ParseMembers(s, i + 1, <<>>)
        ELSE ParseFail

ParseElems(s, i, acc) ==
    LET r == ParseValue(s, i)
    IN  IF ~r.ok THEN ParseFail
        ELSE LET j == SkipWs(s, r.next)
             IN  IF j > Len(s) THEN ParseFail
                 ELSE IF s[j] = "," THEN ParseElems(s, j + 1, Append(acc, r.val))
                 ELSE IF s[j] = "]" THEN ParseOk(JList(Append(acc, r.val)), j + 1)
                 ELSE ParseFail

ParseMembers(s, i0, acc) ==
    LET i == SkipWs(s, i0)
    IN  IF i > Len(s) \/ s[i] # Q THEN ParseFail
        ELSE LET k == ScanString(s, i + 1, <<>>)
             IN  IF ~k.ok THEN ParseFail
                 ELSE LET c == SkipWs(s, k.next)
                      IN  IF c > Len(s) \/ s[c] # ":" THEN ParseFail
                          ELSE LET r == ParseValue(s, c + 1)
                               IN  IF ~r.ok THEN ParseFail
                                   ELSE LET j == SkipWs(s, r.next)
                                            acc2 == Append(acc, <<k.val.v, r.val>>)
                                        IN  IF j > Len(s) THEN ParseFail
                                            ELSE IF s[j] = "," THEN ParseMembers(s, j + 1, acc2)
                                            ELSE IF s[j] = "}" THEN ParseOk(JDict(acc2), j + 1)
                                            ELSE ParseFail

\* json.loads(raw): ok with the decoded value, or not ok (JSONDecodeError).
json_loads(raw) ==
    LET r == ParseValue(raw, 1)
    IN  IF r.ok /\ SkipWs(raw, r.next) = Len(raw) + 1
        THEN [ok |-> TRUE, val |-> r.val]
        ELSE [ok |-> FALSE, val |-> JNull]

\* ------------------------------------------------------------------------
\* Rendering of JSON text (what a model that answers in JSON emits)
\* ------------------------------------------------------------------------

NumTok(n) ==
    CASE n = -1 -> "-0.1"
      [] n = 0  -> "0"
      [] n = 5  -> "0.5"
      [] n = 9  -> "0.9"
      [] n = 10 -> "1.0"
      [] n = 11 -> "1.1"
      [] n = 20 -> "2.0"

RECURSIVE Dumps(_)
RECURSIVE DumpsElems(_)
RECURSIVE DumpsMembers(_)

Dumps(x) ==
    CASE x.t = "null" -> <<"null">>
      [] x.t = "num"  -> <<NumTok(x.v)>>
      [] x.t = "str"  -> <<Q>> \o x.v \o <<Q>>
      [] x.t = "list" -> <<"[">> \o DumpsElems(x.v) \o <<"]">>
      [] x.t = "dict" -> <<"{">> \o DumpsMembers(x.v) \o <<"}">>

DumpsElems(items) ==
    IF Len(items) = 0 THEN <<>>
    ELSE IF Len(items) = 1 THEN Dumps(items[1])
    ELSE Dumps(items[1]) \o <<",", " ">> \o DumpsElems(Tail(items))

DumpsMembers(members) ==
    IF Len(members) = 0 THEN <<>>
    ELSE LET m == <<Q>> \o members[1][1] \o <<Q, ":", " ">> \o Dumps(members[1][2])
         IN  IF Len(members) = 1 THEN m
             ELSE m \o <<",", " ">> \o DumpsMembers(Tail(members))

\* ------------------------------------------------------------------------
\* SummaryPayload and validate_from_json (sec_nlp/core/llm/chains.py)
\* ------------------------------------------------------------------------

KSummary == <<"summary">>

KPoints == <<"points">>

KConfidence == <<"confidence">>

KError == <<"error">>

KRawOutput == <<"raw_output">>

ErrJsonParse == <<"JSON parse failed">>

ErrSchema == <<"Schema validation failed">>

\* Field(ge=0.0, le=1.0), in tenths.
ConfidenceMin == 0

ConfidenceMax == 10

\* The dataclass instance; every field defaults to None.
SummaryPayload(summary, points, confidence, error, raw_output) ==
    [summary |-> summary, points |-> points, confidence |-> confidence,
     error |-> error, raw_output |-> raw_output]

RECURSIVE CleanPointsKeepBlank(_)
\* Faulty variant of CleanPoints: the "and p.strip()" test is forgotten.
CleanPointsKeepBlank(items) ==
    IF Len(items) = 0 THEN <<>>
    ELSE LET p == items[1]
             rest == CleanPointsKeepBlank(Tail(items))
         IN  IF IsStr(p) THEN <<JStr(Strip(p.v))>> \o rest ELSE rest

RECURSIVE CleanPoints(_)
\* [p.strip() for p in pts if isinstance(p, str) and p.strip()]
CleanPoints(items) ==
    IF Len(items) = 0 THEN <<>>
    ELSE LET p == items[1]
             rest == CleanPoints(Tail(items))
         IN  IF IsStr(p) /\ Len(Strip(p.v)) > 0
             THEN <<JStr(Strip(p.v))>> \o rest
             ELSE rest

\* data["summary"] = s.strip() or None
NormalizeSummary(members) ==
    LET s == DictGet(members, KSummary)
    IN  IF IsStr(s)
        THEN DictSet(members, KSummary,
                     IF Len(Strip(s.v)) > 0 THEN JStr(Strip(s.v)) ELSE JNull)
        ELSE members

\* data["points"] = [...]
NormalizePoints(members) ==
    LET pts == DictGet(members, KPoints)
    IN  IF IsList(pts)
        THEN DictSet(members, KPoints, JList(CleanPoints(pts.v)))
        ELSE members

\* The in-place clean-up of a decoded dict; any other value is left alone.
Normalize(data) ==
    IF IsDict(data) THEN JDict(NormalizePoints(NormalizeSummary(data.v))) ELSE data

FieldOk(val) == [ok |-> TRUE, val |-> val]

FieldBad == [ok |-> FALSE, val |-> None]

\* str | None
ValidateStr(x) ==
    IF x.t = "null" THEN FieldOk(None)
    ELSE IF x.t = "str" THEN FieldOk(Some(x.v))
    ELSE FieldBad

\* list[str] | None
ValidateStrList(x) ==
    IF x.t = "null" THEN FieldOk(None)
    ELSE IF x.t = "list" /\ \A i \in 1..Len(x.v) : IsStr(x.v[i])
    THEN FieldOk(Some([i \in 1..Len(x.v) |-> x.v[i].v]))
    ELSE FieldBad

\* Faulty variant of ValidateConfidence: the ge/le constraints are forgotten.
ValidateConfidenceUnbounded(x) ==
    IF x.t = "null" THEN FieldOk(None)
    ELSE IF x.t = "num" THEN FieldOk(Some(x.v))
    ELSE FieldBad

\* float | None, ge=0.0, le=1.0
ValidateConfidence(x) ==
    IF x.t = "null" THEN FieldOk(None)
    ELSE IF x.t = "num" /\ x.v >= ConfidenceMin /\ x.v <= ConfidenceMax
    THEN FieldOk(Some(x.v))
    ELSE FieldBad

\* TypeAdapter(SummaryPayload).validate_python(data): ok with the instance,
\* or not ok (ValidationError).  A value that is no dict is rejected; a
\* missing key takes the field's default, None.
validate_python(data) ==
    IF ~IsDict(data) THEN [ok |-> FALSE, payload |-> SummaryPayload(None, None, None, None, None)]
    ELSE LET s == ValidateStr(DictGet(data.v, KSummary))
             p == ValidateStrList(DictGet(data.v, KPoints))
             c == ValidateConfidence(DictGet(data.v, KConfidence))
             e == ValidateStr(DictGet(data.v, KError))
             r == ValidateStr(DictGet(data.v, KRawOutput))
         IN  [ok |-> s.ok /\ p.ok /\ c.ok /\ e.ok /\ r.ok,
              payload |-> SummaryPayload(s.val, p.val, c.val, e.val, r.val)]

\* How a call ends: it returns a payload (no exception leaves it).
Returned(payload) == [raised |-> FALSE, payload |-> payload]

\* Faulty variant of ParseErrorPayload: raw_output is forgotten.
ParseErrorPayloadNoRaw(raw) == SummaryPayload(None, None, None, Some(ErrJsonParse), None)

\* cls(error="JSON parse failed", raw_output=raw)
ParseErrorPayload(raw) == SummaryPayload(None, None, None, Some(ErrJsonParse), Some(raw))

\* cls(error="Schema validation failed", raw_output=raw)
SchemaErrorPayload(raw) == SummaryPayload(None, None, None, Some(ErrSchema), Some(raw))

\* SummaryPayload.validate_from_json(raw)
validate_from_json(raw) ==
    LET decoded == json_loads(raw)
    IN  IF ~decoded.ok THEN Returned(ParseErrorPayload(raw))
        ELSE LET checked == validate_python(Normalize(decoded.val))
             IN  IF checked.ok THEN Returned(checked.payload)
                 ELSE Returned(SchemaErrorPayload(raw))

\* Faulty variant of Validate: the status is taken from the summary field.
ValidateStatusFromSummary(raw, require_json) ==
    LET call == IF require_json THEN validate_from_json(raw)
                ELSE Returned(SummaryPayload(Some(raw), None, None, None, None))
    IN  [raised |-> call.raised,
         status |-> IF IsSome(call.payload.summary) THEN "ok" ELSE "error",
         summary |-> call.payload]

\* build_summarization_runnable._validate(raw), for the given require_json
Validate(raw, require_json) ==
    LET call == IF require_json THEN validate_from_json(raw)
                ELSE Returned(SummaryPayload(Some(raw), None, None, None, None))
    IN  [raised |-> call.raised,
         status |-> IF IsNone(call.payload.error) THEN "ok" ELSE "error",
         summary |-> call.payload]

\* ------------------------------------------------------------------------
\* Raw model responses the validator is exercised on
\* ------------------------------------------------------------------------

NotJson == <<"n", "o", "t", " ", "j", "s", "o", "n">>

SampleStrs ==
    {<<>>, <<" ">>, <<"h", "i">>, <<" ", "h", "i", " ">>, <<"a", " ", "b">>}

PointItems == {JStr(<<" ">>), JStr(<<"a">>), JStr(<<" ", "b", " ">>), JNum(5)}

\* Each key is absent (None) or present with a value (Some).
SummaryOptions == {None, Some(JNull), Some(JNum(5))} \cup {Some(JStr(s)) : s \in SampleStrs}

PointsOptions ==
    {None, Some(JStr(<<"a">>))} \cup {Some(JList(l)) : l \in SeqsUpTo(PointItems, MaxPoints)}

ConfidenceOptions ==
    {None, Some(JList(<<>>))} \cup {Some(JNum(n)) : n \in {-1, 0, 5, 10, 11}}

ErrorOptions == {None, Some(JStr(<<"b", "o", "o", "m">>))}

Member(key, option) == IF IsNone(option) THEN <<>> ELSE << <<key, Get(option)>> >>

ObjectOf(s, p, c, e) ==
    JDict(Member(KSummary, s) \o Member(KPoints, p) \o Member(KConfidence, c)
          \o Member(KError, e))

OtherTexts ==
    {NotJson, <<>>, <<"{">>, <<"{", Q, "summary", Q, ":">>, <<"[", "0.5", ",", "]">>,
     <<"null">>, <<"0.5">>, <<Q, "h", "i", Q>>, <<"[", "]">>, <<" ", "{", "}", " ">>,
     <<"{", "}", "{", "}">>, <<" ", "n", "o">>,
     Dumps(JDict(<< <<KConfidence, JNum(20)>> >>)),
     Dumps(JDict(<< <<KError, JNum(5)>> >>)),
     Dumps(JDict(<< <<KRawOutput, JList(<<>>)>> >>)),
     Dumps(JDict(<< <<KRawOutput, JStr(<<"r">>)>> >>)),
     Dumps(JDict(<< <<KSummary, JStr(<<"h", "i">>)>>, <<KRawOutput, JStr(<<"r">>)>> >>)),
     Dumps(JDict(<< <<KSummary, JNum(5)>>, <<KSummary, JStr(<<"h", "i">>)>> >>))}

\* ------------------------------------------------------------------------
\* Strings of the pipeline (sec_nlp/core/pipeline.py)
\* ------------------------------------------------------------------------

LowerChar(c) ==
    CASE c = "A" -> "a" [] c = "P" -> "p" [] c = "L" -> "l"
      [] c = "R" -> "r" [] c = "E" -> "e" [] c = "V" -> "v"
      [] OTHER -> c

UpperChar(c) ==
    CASE c = "a" -> "A" [] c = "p" -> "P" [] c = "l" -> "L"
      [] c = "r" -> "R" [] c = "e" -> "E" [] c = "v" -> "V"
      [] OTHER -> c

\* str.lower()
Lower(s) == [k \in 1..Len(s) |-> LowerChar(s[k])]

\* str.upper()
Upper(s) == [k \in 1..Len(s) |-> UpperChar(s[k])]

\* needle in hay
Contains(needle, hay) ==
    \E k \in 1..(Len(hay) - Len(needle) + 1) :
        SubSeq(hay, k, k + Len(needle) - 1) = needle

SlugChars ==
    {"a", "p", "l", "r", "e", "v", "x", "c", "o", "s", "t", "d", "-",
     "0", "1", "2", "3", "4", "5", "6", "7", "8", "9"}

RECURSIVE ReplaceRuns(_, _, _, _)
\* re.sub("[^allowed]+", with, s): every maximal run of characters outside
\* allowed becomes one copy of with.
ReplaceRuns(s, allowed, with, inRun) ==
    IF Len(s) = 0 THEN <<>>
    ELSE IF Head(s) \in allowed
         THEN <<Head(s)>> \o ReplaceRuns(Tail(s), allowed, with, FALSE)
         ELSE (IF inRun THEN <<>> ELSE <<with>>) \o ReplaceRuns(Tail(s), allowed, with, TRUE)

RECURSIVE LStripChar(_, _)
LStripChar(s, c) == IF Len(s) > 0 /\ Head(s) = c THEN LStripChar(Tail(s), c) ELSE s

RECURSIVE RStripChar(_, _)
RStripChar(s, c) ==
    IF Len(s) > 0 /\ s[Len(s)] = c THEN RStripChar(SubSeq(s, 1, Len(s) - 1), c) ELSE s

\* Faulty variant of Slugify: the case of the letters is kept.
SlugifyKeepingCase(s) ==
    RStripChar(LStripChar(ReplaceRuns(s, SlugChars \cup {"A", "P", "L", "R", "E", "V"},
                                      "-", FALSE), "-"), "-")

\* re.sub(r"[^a-z0-9-]+", "-", s.lower()).strip("-")
Slugify(s) == RStripChar(LStripChar(ReplaceRuns(Lower(s), SlugChars, "-", FALSE), "-"), "-")

SafeNameChars == SlugChars \cup {"A", "P", "L", "R", "E", "V", ".", "_"}

SafeNameMax == 120

\* re.sub(rf"[^{allow}]+", "_", s)[:120]
SafeName(s) ==
    LET r == ReplaceRuns(s, SafeNameChars, "_", FALSE)
    IN  SubSeq(r, 1, IF Len(r) < SafeNameMax THEN Len(r) ELSE SafeNameMax)

\* settings.qdrant_collection_prefix
CollectionPrefix == <<"sec_nlp">>

\* Pipeline._collection_slug(symbol), for the pipeline's keyword
CollectionSlug(symbol, keyword) ==
    LET base_name == Slugify(Upper(symbol) \o <<"-">> \o keyword)
    IN  IF Len(CollectionPrefix) > 0 THEN CollectionPrefix \o <<"_">> \o base_name
        ELSE base_name

\* ------------------------------------------------------------------------
\* The environment of a run: configuration, documents, model responses
\* ------------------------------------------------------------------------

\* Pipeline.keyword
Keyword == <<"R", "e", "v">>

\* Pipeline.keyword_lower
KeywordLower == Lower(Keyword)

\* The argument of run(symbol).
SymbolArg == <<" ", "a", "a", "p", "l">>

\* Pipeline.batch_size values the model runs with (validated positive).
BatchSizes == {1, 2}

\* An html file of the download folder: .../<symbol>/<form>/<dir>/<stem>.html
HtmlPath(dir, stem) == [dir |-> dir, stem |-> stem]

DocA == HtmlPath("0001", <<"d", "o", "c">>)

DocB == HtmlPath("0002", <<"d", " ", "c">>)

\* What the filing directory can hold, newest first.
DocC == HtmlPath("0002", <<"d", "o", "c">>)

DocListings == {<<>>, <<DocA>>, <<DocB, DocA>>, <<DocC, DocA>>}

\* The text of the k-th chunk of a document: it holds the keyword (in a
\* case that varies with k) or it does not.
ChunkText(k, matches) ==
    IF matches
    THEN <<IF k % 2 = 1 THEN "R" ELSE "r", "E", "v", ToString(k)>>
    ELSE <<"c", "o", "s", "t", ToString(k)>>

\* The chunk lists transform_html can return, at most n chunks long: which
\* of the chunks hold the keyword.
ChunkLists(n) == UNION {[1..m -> BOOLEAN] : m \in 0..n}

ChunksOf(flags) == [k \in 1..Len(flags) |-> ChunkText(k, flags[k])]

\* The model's answer to the prompt rendered for one input: valid JSON that
\* names the chunk for a chunk starting in upper case, free text otherwise.
LLMResponse(input) ==
    IF input.chunk[1] = "R"
    THEN Dumps(JDict(<< <<KSummary, JStr(<<" ">> \o input.chunk)>>,
                        <<KPoints, JList(<<JStr(<<"x">>)>>)>>,
                        <<KConfidence, JNum(9)>> >>))
    ELSE NotJson \o input.chunk

Exception(type, msg) == [type |-> type, msg |-> msg]

FileNotFoundError == Exception("FileNotFoundError", "No filings found")

ChunkError == Exception("FileNotFoundError", "File not found")

ProvisionError == Exception("ResponseHandlingException", "connection refused")

UpsertError == Exception("UnexpectedResponse", "upsert failed")

BatchError == Exception("TimeoutError", "backend timed out")

WriteError == Exception("OSError", "disk full")

\* ------------------------------------------------------------------------
\* State
\* ------------------------------------------------------------------------

VARIABLES
    \* -- the validator exercised on its own
    raw,             \* the raw model response under validation
    calls,           \* how each validate_from_json(raw) call ended, in order
    output,          \* how _validate(raw) ended, when called
    adapter,         \* SummaryPayload._ADAPTER is built
    \* -- Pipeline fields
    dry_run,         \* Pipeline.dry_run
    batch_size,      \* Pipeline.batch_size
    require_json,    \* Pipeline.require_json
    self_collection_name,  \* Pipeline.collection_name, None when not configured
    qdrant_client,   \* Pipeline._qdrant is built
    embedder,        \* Pipeline._embedder is built
    \* -- the outside world
    filing_dir,      \* None: the symbol's filing directory is missing; else its html files
    collections,     \* names of the collections of the vector store
    create_calls,    \* create_collection calls made, in order
    points,          \* points of the vector store, in order of arrival
    next_id,         \* source of fresh uuid4 values
    artifacts,       \* the output directory: path :> content of each summary file
    \* -- locals of run(symbol)
    pc,              \* where run stands
    symbol,          \* the normalized symbol
    download_ok,     \* what download_filings reported for the symbol
    html_paths,      \* the documents listed
    collection_name,
    doc,             \* index into html_paths of the document being processed
    relevant,        \* texts of the matching chunks of that document
    inputs,
    summaries,
    i,               \* start of the next window
    output_files,
    outcome,         \* how run ended
    \* -- history, for stating properties
    attempts,        \* documents chunked so far: [path, matching, chunks]
    batch_log,       \* windows submitted for the current document: [first, size, raised]
    store_log,       \* calls made to the vector store client and the embedder, in order
    upsert_ret,      \* what the last _upsert_texts call returned, when one has
    write_log,       \* artifact writes, in order: [run, doc, path]
    \* -- the calls made on the pipeline, one after the other
    symbols,         \* the symbols run is called with, in order
    sym_idx,         \* index into symbols of the run in progress
    run_log,         \* the runs that are over: [symbol, outcome]
    run_all,         \* how run_all(symbols) stands, when that is the call made
    call_log,         \* the calls made on the pipeline's own methods, in order
    \* -- SECFilingDownloader
    dl_symbols,   \* SECFilingDownloader._symbols
    dl_pc,   \* where download_filings stands
    dl_todo,   \* the symbols the loop has still to take, in order
    dl_results,   \* results
    dl_gets,   \* the Downloader.get calls of the call in progress: [symbol, ok]
    dl_calls,   \* how many download_filings calls were made
    \* -- chains/sec_runnable.py: the summarizer callable
    max_retries,   \* build_sec_summarizer: the max_retries argument
    rt_require_json,   \* build_sec_summarizer: the require_json argument
    rt_pc,   \* _invoke_with_retry: "idle", "loop" or "returned"
    attempt,   \* _invoke_with_retry: the loop variable
    last_err,   \* _invoke_with_retry: the last exception caught, if any
    llm_log,   \* history: the outcome of each llm.invoke of the call
    rt_result,   \* _invoke_with_retry: what the call returned, if it did
    \* -- two threads of one pipeline inside _ensure_collection
    wk_pc,   \* each worker's place in _ensure_collection
    wk_name,   \* each worker's collection_name argument
    wk_listed   \* each worker's local: the names get_collections() gave it

validatorVars == <<raw, calls, output, adapter>>

configVars == <<dry_run, batch_size, require_json, self_collection_name>>

worldVars == <<filing_dir, collections, create_calls, points, next_id, artifacts>>

runVars ==
    <<pc, symbol, download_ok, html_paths, collection_name, doc, relevant, inputs,
      summaries, i, output_files, outcome, attempts, batch_log, qdrant_client, embedder>>

historyVars == <<store_log, upsert_ret, write_log>>

sessionVars == <<symbols, sym_idx, run_log, run_all, call_log>>

downloaderVars == <<dl_symbols, dl_pc, dl_todo, dl_results, dl_gets, dl_calls>>

retryVars == <<max_retries, rt_require_json, rt_pc, attempt, last_err, llm_log, rt_result>>

workerVars == <<wk_pc, wk_name, wk_listed>>

vars ==
    <<validatorVars, configVars, worldVars, runVars, historyVars,
      sessionVars, downloaderVars, retryVars, workerVars>>

DownloaderIdle ==
    /\ dl_symbols = {}
    /\ dl_pc = "idle"
    /\ dl_todo = <<>>
    /\ dl_results = <<>>
    /\ dl_gets = <<>>
    /\ dl_calls = 0

RetryIdle ==
    /\ max_retries = 2
    /\ rt_require_json = TRUE
    /\ rt_pc = "idle"
    /\ attempt = 1
    /\ last_err = <<>>
    /\ llm_log = <<>>
    /\ rt_result = <<>>

WorkersIdle ==
    /\ wk_pc = [w \in {1, 2} |-> "idle"]
    /\ wk_name = [w \in {1, 2} |-> <<>>]
    /\ wk_listed = [w \in {1, 2} |-> {}]

\* The parts of the program a specification leaves alone.
ComponentsIdle ==
    /\ DownloaderIdle
    /\ RetryIdle
    /\ WorkersIdle

\* ------------------------------------------------------------------------
\* Pipeline.run, block by block
\* ------------------------------------------------------------------------

\* self.collection_name or self._collection_slug(symbol), for the pipeline's
\* keyword: a name configured and not empty is the one used.
CollectionName(sym, keyword) ==
    IF IsSome(self_collection_name) /\ Get(self_collection_name) # <<>>
    THEN Get(self_collection_name)
    ELSE CollectionSlug(sym, keyword)

Running == [kind |-> "running", at |-> "", exc |-> Exception("", ""), files |-> <<>>]

ReturnedFiles(files) == [kind |-> "returned", at |-> "", exc |-> Exception("", ""), files |-> files]

RaisedAt(stage, e) == [kind |-> "raised", at |-> stage, exc |-> e, files |-> <<>>]

\* html_path.name
FileName(path) == path.stem \o <<".html">>

\* out_path / f"{symbol.lower()}_{safe_kw}_{safe_doc}.summary.json"
OutFile(sym, keyword, path) ==
    Lower(sym) \o <<"_">> \o Slugify(keyword) \o <<"_">> \o SafeName(path.stem)
    \o <<".summary.json">>

RECURSIVE RelevantCaseSensitive(_)
\* Faulty variant of Relevant: the texts are compared as they are.
RelevantCaseSensitive(chunks) ==
    IF Len(chunks) = 0 THEN <<>>
    ELSE IF Contains(Keyword, Head(chunks))
         THEN <<Head(chunks)>> \o RelevantCaseSensitive(Tail(chunks))
         ELSE RelevantCaseSensitive(Tail(chunks))

\* [c for c in chunks if self.keyword_lower in c.page_content.lower()]
RECURSIVE Relevant(_)
Relevant(chunks) ==
    IF Len(chunks) = 0 THEN <<>>
    ELSE IF Contains(KeywordLower, Lower(Head(chunks)))
         THEN <<Head(chunks)>> \o Relevant(Tail(chunks))
         ELSE Relevant(Tail(chunks))

\* {"symbol": symbol, "chunk": t, "search_term": self.keyword}
SummarizationInput(sym, t) == [symbol |-> sym, chunk |-> t, search_term |-> Keyword]

\* inputs[i : i + batch_size]
Window(ins, start, size) ==
    SubSeq(ins, start + 1, IF start + size < Len(ins) THEN start + size ELSE Len(ins))

\* The chain prompt | llm | validate on one input.
GraphInvoke(input, rj) ==
    LET v == Validate(LLMResponse(input), rj)
    IN  [status |-> v.status, summary |-> v.summary]

\* graph.batch(window), when no item raises
GraphBatch(window, rj) == [k \in 1..Len(window) |-> GraphInvoke(window[k], rj)]

\* SummarizationResult(summary="(null)", error="No summary payload returned.")
NoPayloadEntry ==
    [summary |-> Some(<<"(null)">>), error |-> Some(<<"No summary payload returned.">>)]

\* Faulty variant of ResultDict: the placeholder is taken whatever r holds.
ResultDictAlwaysPlaceholder(r) ==
    [summary |-> Some(<<"(null)">>), error |-> Some(<<"No summary payload returned.">>)]

\* Faulty variant of ResultDict: the output is kept as it is, status and all.
ResultDictKeepingWrapper(r) == r

\* r.get("summary", SummarizationResult(...))
ResultDict(r) == IF "summary" \in DOMAIN r THEN r.summary ELSE NoPayloadEntry

\* f"Exception: {type(e).__name__}: {e}"
ExceptionText(e) == <<"Exception: ", e.type, ": ", e.msg>>

\* SummarizationResult(summary="(null)", error=f"Exception: ...")
ErrorEntry(e) == [summary |-> Some(<<"(null)">>), error |-> Some(ExceptionText(e))]

\* Faulty variant of BatchReturned: the payloads are put in front.
BatchReturnedPrepending(sums, results) ==
    [raised |-> FALSE,
     summaries |-> [k \in 1..Len(results) |-> ResultDict(results[k])] \o sums]

\* The try block: every result's payload is appended.
BatchReturned(sums, results) ==
    [raised |-> FALSE,
     summaries |-> sums \o [k \in 1..Len(results) |-> ResultDict(results[k])]]

\* Faulty variant of BatchFailed: the entries gathered so far are lost.
BatchFailedDiscarding(sums, window, e) ==
    [raised |-> FALSE,
     summaries |-> [k \in 1..Len(window) |-> ErrorEntry(e)]]

\* The except block: one error entry per item of the window.
BatchFailed(sums, window, e) ==
    [raised |-> FALSE,
     summaries |-> sums \o [k \in 1..Len(window) |-> ErrorEntry(e)]]

\* Faulty variant of Artifact: the summaries are added to those of the file
\* already there.
ArtifactAccumulating(sym, path, collection, sums) ==
    [symbol |-> sym, document |-> FileName(path), collection |-> collection,
     summaries |-> (IF OutFile(sym, Keyword, path) \in DOMAIN artifacts
                    THEN artifacts[OutFile(sym, Keyword, path)].summaries
                    ELSE <<>>) \o sums]

\* The mapping json.dump writes.
Artifact(sym, path, collection, sums) ==
    [symbol |-> sym, document |-> FileName(path), collection |-> collection,
     summaries |-> sums]

\* The file at path, when there is one.
HasFile(path) == path \in DOMAIN artifacts

\* downloader.download_filings(...): the per-symbol exception is caught
\* inside and reported as False; run ignores the report.  A download that
\* succeeds may bring the filing directory into being.
RunDownload ==
    /\ pc = "download"
    /\ \/ /\ download_ok' = TRUE
          /\ filing_dir' \in (IF IsNone(filing_dir)
                              THEN {None} \cup {Some(l) : l \in DocListings}
                              ELSE {filing_dir})
       \/ /\ download_ok' = FALSE
          /\ filing_dir' = filing_dir
    /\ pc' = "list"
    /\ UNCHANGED <<validatorVars, configVars, workerVars, retryVars, downloaderVars, collections, create_calls, points, next_id,
                   artifacts, symbol, html_paths, collection_name, doc, relevant, inputs,
                   summaries, i, output_files, outcome, attempts, batch_log,
                   qdrant_client, embedder, historyVars, sessionVars>>

\* pre.html_paths_for_symbol(...) up to the collection name (limit is None).
RunList ==
    /\ pc = "list"
    /\ \/ /\ IsNone(filing_dir)
          /\ outcome' = RaisedAt("list", FileNotFoundError)
          /\ pc' = "done"
          /\ UNCHANGED <<html_paths, collection_name>>
       \/ /\ IsSome(filing_dir)
          /\ html_paths' = Get(filing_dir)
          /\ IF Len(Get(filing_dir)) = 0
             THEN /\ outcome' = ReturnedFiles(<<>>)
                  /\ pc' = "done"
                  /\ UNCHANGED collection_name
             ELSE /\ collection_name' = CollectionName(symbol, Keyword)
                  /\ pc' = "provision"
                  /\ UNCHANGED outcome
    /\ UNCHANGED <<validatorVars, configVars, workerVars, retryVars, downloaderVars, worldVars, symbol, download_ok, doc,
                   relevant, inputs, summaries, i, output_files, attempts, batch_log,
                   qdrant_client, embedder, historyVars, sessionVars>>

\* One call made to the vector store client or the embedder.
StoreCall(op, name, arg, ok) == [op |-> op, name |-> name, arg |-> arg, ok |-> ok]

\* self._ensure_qdrant(), not in dry-run: the client is built once.
EnsureQdrantCalls == IF qdrant_client THEN <<>> ELSE <<StoreCall("QdrantClient", <<>>, <<>>, TRUE)>>

\* self._ensure_embedder(): the embedder is built once, and probed for its width.
EnsureEmbedderCalls ==
    IF embedder THEN <<>>
    ELSE <<StoreCall("SentenceTransformer", <<>>, <<>>, TRUE),
           StoreCall("encode", <<>>, << <<"test">> >>, TRUE)>>

\* Faulty variant of EnsureCollection: the collection is created whether it
\* is there or not.
EnsureCollectionAlwaysCreating(name) ==
    /\ qdrant_client' = TRUE
    /\ embedder' = TRUE
    /\ collections' = collections \cup {name}
    /\ create_calls' = Append(create_calls, name)
    /\ store_log' = store_log \o EnsureQdrantCalls \o EnsureEmbedderCalls
                     \o <<StoreCall("get_collections", <<>>, <<>>, TRUE),
                          StoreCall("create_collection", name, <<>>, TRUE)>>

\* Pipeline._ensure_collection(collection_name), when every call returns
EnsureCollection(name) ==
    /\ qdrant_client' = TRUE
    /\ embedder' = TRUE
    /\ IF name \in collections
       THEN /\ UNCHANGED <<collections, create_calls>>
            /\ store_log' = store_log \o EnsureQdrantCalls \o EnsureEmbedderCalls
                             \o <<StoreCall("get_collections", <<>>, <<>>, TRUE)>>
       ELSE /\ collections' = collections \cup {name}
            /\ create_calls' = Append(create_calls, name)
            /\ store_log' = store_log \o EnsureQdrantCalls \o EnsureEmbedderCalls
                             \o <<StoreCall("get_collections", <<>>, <<>>, TRUE),
                                  StoreCall("create_collection", name, <<>>, TRUE)>>

\* Pipeline._ensure_collection(collection_name), when client.get_collections()
\* raises, or client.create_collection(...) does for a collection that is
\* absent: client and embedder are built by then.
EnsureCollectionRaises(name) ==
    /\ qdrant_client' = TRUE
    /\ embedder' = TRUE
    /\ \/ /\ store_log' = store_log \o EnsureQdrantCalls \o EnsureEmbedderCalls
                           \o <<StoreCall("get_collections", <<>>, <<>>, FALSE)>>
          /\ UNCHANGED <<collections, create_calls>>
       \/ /\ name \notin collections
          /\ store_log' = store_log \o EnsureQdrantCalls \o EnsureEmbedderCalls
                           \o <<StoreCall("get_collections", <<>>, <<>>, TRUE),
                                StoreCall("create_collection", name, <<>>, FALSE)>>
          /\ create_calls' = Append(create_calls, name)
          /\ UNCHANGED collections

\* Faulty variant of RunProvision: the exception of _ensure_collection is
\* swallowed and the loop over the documents begins.
RunProvisionSwallowing ==
    /\ pc = "provision"
    /\ \/ /\ dry_run
          /\ UNCHANGED <<qdrant_client, embedder, collections, create_calls, outcome,
                         store_log>>
          /\ pc' = "chunk"
       \/ /\ ~dry_run
          /\ EnsureCollection(collection_name)
          /\ UNCHANGED outcome
          /\ pc' = "chunk"
       \/ /\ ~dry_run
          /\ EnsureCollectionRaises(collection_name)
          /\ UNCHANGED outcome
          /\ pc' = "chunk"
    /\ output_files' = <<>>
    /\ doc' = 1
    /\ UNCHANGED <<validatorVars, configVars, workerVars, retryVars, downloaderVars, points, next_id, artifacts, filing_dir,
                   symbol, download_ok, html_paths, collection_name, relevant, inputs,
                   summaries, i, attempts, batch_log, upsert_ret, write_log,
                   sessionVars>>

\* Faulty variant of RunProvision: the collection is provisioned in dry-run
\* as well.
RunProvisionInDryRun ==
    /\ pc = "provision"
    /\ \/ /\ EnsureCollection(collection_name)
          /\ UNCHANGED outcome
          /\ pc' = "chunk"
       \/ /\ EnsureCollectionRaises(collection_name)
          /\ outcome' = RaisedAt("provision", ProvisionError)
          /\ pc' = "done"
    /\ output_files' = <<>>
    /\ doc' = 1
    /\ UNCHANGED <<validatorVars, configVars, workerVars, retryVars, downloaderVars, points, next_id, artifacts, filing_dir,
                   symbol, download_ok, html_paths, collection_name, relevant, inputs,
                   summaries, i, attempts, batch_log, upsert_ret, write_log,
                   sessionVars>>

\* if not self.dry_run: self._ensure_collection(...); output_files = []
RunProvision ==
    /\ pc = "provision"
    /\ \/ /\ dry_run
          /\ UNCHANGED <<qdrant_client, embedder, collections, create_calls, outcome,
                         store_log>>
          /\ pc' = "chunk"
       \/ /\ ~dry_run
          /\ EnsureCollection(collection_name)
          /\ UNCHANGED outcome
          /\ pc' = "chunk"
       \/ /\ ~dry_run
          /\ EnsureCollectionRaises(collection_name)
          /\ outcome' = RaisedAt("provision", ProvisionError)
          /\ pc' = "done"
    /\ output_files' = <<>>
    /\ doc' = 1
    /\ UNCHANGED <<validatorVars, configVars, workerVars, retryVars, downloaderVars, points, next_id, artifacts, filing_dir,
                   symbol, download_ok, html_paths, collection_name, relevant, inputs,
                   summaries, i, attempts, batch_log, upsert_ret, write_log,
                   sessionVars>>

RECURSIVE ChunkedSoFar(_)
\* The chunks the preprocessor has returned so far.
ChunkedSoFar(log) ==
    IF Len(log) = 0 THEN 0 ELSE Len(Head(log).chunks) + ChunkedSoFar(Tail(log))

\* The chunks the preprocessor may still return.
ChunksLeft ==
    (IF Len(symbols) > 1 THEN MaxSessionChunks ELSE MaxChunks) - ChunkedSoFar(attempts)

\* The head of the loop: the next document is chunked and filtered, or the
\* loop is over and run returns output_files.
RunChunk ==
    /\ pc = "chunk"
    /\ \/ /\ doc > Len(html_paths)
          /\ outcome' = ReturnedFiles(output_files)
          /\ pc' = "done"
          /\ UNCHANGED <<doc, relevant, attempts>>
       \/ /\ doc <= Len(html_paths)
          /\ outcome' = RaisedAt("chunk", ChunkError)
          /\ pc' = "done"
          /\ UNCHANGED <<doc, relevant, attempts>>
       \/ /\ doc <= Len(html_paths)
          /\ \E flags \in ChunkLists(ChunksLeft) :
                LET texts == Relevant(ChunksOf(flags))
                IN  /\ attempts' = Append(attempts,
                                          [path |-> html_paths[doc], matching |-> Len(texts),
                                           chunks |-> ChunksOf(flags)])
                    /\ IF Len(texts) = 0
                       THEN /\ doc' = doc + 1
                            /\ pc' = "chunk"
                            /\ UNCHANGED relevant
                       ELSE /\ relevant' = texts
                            /\ pc' = "upsert"
                            /\ UNCHANGED doc
          /\ UNCHANGED outcome
    /\ UNCHANGED <<validatorVars, configVars, workerVars, retryVars, downloaderVars, worldVars, symbol, download_ok, html_paths,
                   collection_name, inputs, summaries, i, output_files, batch_log,
                   qdrant_client, embedder, historyVars, sessionVars>>

\* Faulty variant of NewPoints: a point's id is its place in the document,
\* so that a later run writes over the points of an earlier one.
NewPointsKeyedByPlace(texts, path, sym) ==
    [k \in 1..Len(texts) |->
        [id |-> k,
         payload |-> [source |-> FileName(path), symbol |-> sym, keyword |-> Keyword,
                      text |-> texts[k]]]]

\* The points _upsert_texts builds: one per text, under fresh ids.
NewPoints(texts, path, sym) ==
    [k \in 1..Len(texts) |->
        [id |-> next_id + k - 1,
         payload |-> [source |-> FileName(path), symbol |-> sym, keyword |-> Keyword,
                      text |-> texts[k]]]]

\* self._upsert_texts(collection_name, texts, metadata=metas), then the
\* inputs are built and summaries is emptied.
RunUpsert ==
    /\ pc = "upsert"
    /\ \/ /\ dry_run
          /\ next_id' = next_id + Len(relevant)
          /\ upsert_ret' = Some([k \in 1..Len(relevant) |-> next_id + k - 1])
          /\ UNCHANGED <<points, qdrant_client, embedder, outcome, store_log>>
          /\ pc' = "batch"
       \/ /\ ~dry_run
          /\ qdrant_client' = TRUE
          /\ embedder' = TRUE
          /\ next_id' = next_id + Len(relevant)
          /\ points' = points \o NewPoints(relevant, html_paths[doc], symbol)
          /\ store_log' = store_log \o EnsureQdrantCalls \o EnsureEmbedderCalls
                           \o <<StoreCall("encode", <<>>, relevant, TRUE),
                                StoreCall("upsert", collection_name,
                                          NewPoints(relevant, html_paths[doc], symbol), TRUE)>>
          /\ upsert_ret' = Some([k \in 1..Len(relevant) |-> next_id + k - 1])
          /\ UNCHANGED outcome
          /\ pc' = "batch"
       \/ /\ ~dry_run
          /\ qdrant_client' = TRUE
          /\ embedder' = TRUE
          /\ next_id' = next_id + Len(relevant)
          /\ store_log' = store_log \o EnsureQdrantCalls \o EnsureEmbedderCalls
                           \o <<StoreCall("encode", <<>>, relevant, TRUE),
                                StoreCall("upsert", collection_name,
                                          NewPoints(relevant, html_paths[doc], symbol), FALSE)>>
          /\ outcome' = RaisedAt("upsert", UpsertError)
          /\ pc' = "done"
          /\ UNCHANGED <<points, upsert_ret>>
    /\ IF pc' = "done"
       THEN UNCHANGED <<inputs, summaries, batch_log, i>>
       ELSE /\ inputs' = [k \in 1..Len(relevant) |->
                            SummarizationInput(symbol, relevant[k])]
            /\ summaries' = <<>>
            /\ batch_log' = <<>>
            /\ i' = 0
    /\ UNCHANGED <<validatorVars, configVars, workerVars, retryVars, downloaderVars, filing_dir, collections, create_calls,
                   artifacts, symbol, download_ok, html_paths, collection_name, doc,
                   relevant, output_files, attempts, write_log, sessionVars>>

\* Faulty variant of RunBatch: a window whose graph.batch raised is
\* submitted again.
RunBatchResubmitting ==
    /\ pc = "batch"
    /\ LET window == Window(inputs, i, batch_size)
       IN  \E fails \in BOOLEAN :
              /\ batch_log' = Append(batch_log,
                                     [first |-> i, size |-> Len(window), raised |-> fails])
              /\ IF fails
                 THEN UNCHANGED <<summaries, i, pc, outcome>>
                 ELSE /\ summaries' = BatchReturned(summaries,
                                                    GraphBatch(window, require_json)).summaries
                      /\ i' = i + batch_size
                      /\ pc' = IF i + batch_size < Len(inputs) THEN "batch" ELSE "write"
                      /\ UNCHANGED outcome
    /\ UNCHANGED <<validatorVars, configVars, workerVars, retryVars, downloaderVars, worldVars, symbol, download_ok,
                   html_paths, collection_name, doc, relevant, inputs, output_files, attempts,
                   qdrant_client, embedder, historyVars, sessionVars>>

\* One turn of the window loop: graph.batch(window) returns or raises.
RunBatch ==
    /\ pc = "batch"
    /\ LET window == Window(inputs, i, batch_size)
       IN  \E fails \in BOOLEAN :
              LET ended == IF fails
                           THEN BatchFailed(summaries, window, BatchError)
                           ELSE BatchReturned(summaries, GraphBatch(window, require_json))
              IN  /\ batch_log' = Append(batch_log,
                                         [first |-> i, size |-> Len(window), raised |-> fails])
                  /\ IF ended.raised
                     THEN /\ outcome' = RaisedAt("batch", BatchError)
                          /\ pc' = "done"
                          /\ UNCHANGED <<summaries, i>>
                     ELSE /\ summaries' = ended.summaries
                          /\ i' = i + batch_size
                          /\ pc' = IF i + batch_size < Len(inputs) THEN "batch" ELSE "write"
                          /\ UNCHANGED outcome
    /\ UNCHANGED <<validatorVars, configVars, workerVars, retryVars, downloaderVars, worldVars, symbol, download_ok, html_paths,
                   collection_name, doc, relevant, inputs, output_files, attempts,
                   qdrant_client, embedder, historyVars, sessionVars>>

\* Faulty variant of RunWrite: the document after the next one follows.
RunWriteSkippingNext ==
    /\ pc = "write"
    /\ LET out_file == OutFile(symbol, Keyword, html_paths[doc])
           content == Artifact(symbol, html_paths[doc], collection_name, summaries)
       IN  \/ /\ artifacts' = [p \in DOMAIN artifacts \cup {out_file} |->
                                  IF p = out_file THEN content ELSE artifacts[p]]
              /\ output_files' = Append(output_files, out_file)
              /\ write_log' = Append(write_log, [run |-> sym_idx, doc |-> html_paths[doc],
                                                  path |-> out_file])
              /\ doc' = doc + 2
              /\ pc' = "chunk"
              /\ UNCHANGED outcome
           \/ /\ outcome' = RaisedAt("write", WriteError)
              /\ pc' = "done"
              /\ UNCHANGED <<artifacts, output_files, doc, write_log>>
    /\ UNCHANGED <<validatorVars, configVars, workerVars, retryVars, downloaderVars, filing_dir, collections, create_calls,
                   points, next_id, symbol, download_ok, html_paths, collection_name,
                   relevant, inputs, summaries, i, attempts, batch_log, qdrant_client,
                   embedder, store_log, upsert_ret, sessionVars>>

\* The artifact is written and its path appended; the next document follows.
RunWrite ==
    /\ pc = "write"
    /\ LET out_file == OutFile(symbol, Keyword, html_paths[doc])
           content == Artifact(symbol, html_paths[doc], collection_name, summaries)
       IN  \/ /\ artifacts' = [p \in DOMAIN artifacts \cup {out_file} |->
                                  IF p = out_file THEN content ELSE artifacts[p]]
              /\ output_files' = Append(output_files, out_file)
              /\ write_log' = Append(write_log, [run |-> sym_idx, doc |-> html_paths[doc],
                                                  path |-> out_file])
              /\ doc' = doc + 1
              /\ pc' = "chunk"
              /\ UNCHANGED outcome
           \/ /\ outcome' = RaisedAt("write", WriteError)
              /\ pc' = "done"
              /\ UNCHANGED <<artifacts, output_files, doc, write_log>>
    /\ UNCHANGED <<validatorVars, configVars, workerVars, retryVars, downloaderVars, filing_dir, collections, create_calls,
                   points, next_id, symbol, download_ok, html_paths, collection_name,
                   relevant, inputs, summaries, i, attempts, batch_log, qdrant_client,
                   embedder, store_log, upsert_ret, sessionVars>>

\* ------------------------------------------------------------------------
\* Specification of one run(symbol) call
\* ------------------------------------------------------------------------

ValidatorIdle ==
    /\ raw = <<>>
    /\ calls = <<>>
    /\ output = None
    /\ adapter = FALSE

RunStart ==
    /\ pc = "download"
    /\ symbol = Upper(Strip(SymbolArg))
    /\ download_ok = FALSE
    /\ html_paths = <<>>
    /\ collection_name = <<>>
    /\ doc = 0
    /\ relevant = <<>>
    /\ inputs = <<>>
    /\ summaries = <<>>
    /\ i = 0
    /\ output_files = <<>>
    /\ outcome = Running
    /\ attempts = <<>>
    /\ batch_log = <<>>

\* run is called by itself, not by run_all.
NoRunAll == [kind |-> "none", result |-> <<>>, exc |-> Exception("", "")]

Init ==
    /\ ValidatorIdle
    /\ ComponentsIdle
    /\ dry_run \in BOOLEAN
    /\ batch_size \in BatchSizes
    /\ require_json = TRUE
    /\ self_collection_name = None
    /\ qdrant_client = FALSE
    /\ embedder = FALSE
    /\ filing_dir \in {None} \cup {Some(l) : l \in DocListings}
    /\ collections \in {{}, {CollectionSlug(Upper(Strip(SymbolArg)), Keyword)}}
    /\ create_calls = <<>>
    /\ points = <<>>
    /\ next_id = 1
    /\ artifacts = <<>>
    /\ store_log = <<>>
    /\ upsert_ret = None
    /\ write_log = <<>>
    /\ symbols = <<SymbolArg>>
    /\ sym_idx = 1
    /\ run_log = <<>>
    /\ run_all = NoRunAll
    /\ call_log = <<>>
    /\ RunStart

Next ==
    \/ RunDownload
    \/ RunList
    \/ RunProvision
    \/ RunChunk
    \/ RunUpsert
    \/ RunBatch
    \/ RunWrite

Spec == Init /\ [][Next]_vars

\* ------------------------------------------------------------------------
\* Specification of run_all(symbols), and of run called several times
\* ------------------------------------------------------------------------

\* The symbols the calls are made with.
SymbolArgs == {SymbolArg, <<"p", "e", "p">>}

\* What the filing directory of a symbol can hold in these calls.
SessionListings == {<<>>, <<DocA>>, <<DocB, DocA>>}

\* Pipeline.batch_size in these calls.
SessionBatchSizes == {2}

\* One call, or two: the same symbol again, or another.
SymbolLists == {<<a>> : a \in SymbolArgs} \cup {<<a, b>> : a \in SymbolArgs, b \in SymbolArgs}

\* symbol.strip().upper()
Normalized(sym) == Upper(Strip(sym))

RunAllRunning(result) == [kind |-> "running", result |-> result, exc |-> Exception("", "")]

RunAllReturned(result) == [kind |-> "returned", result |-> result, exc |-> Exception("", "")]

RunAllRaised(e) == [kind |-> "raised", result |-> <<>>, exc |-> e]

\* The dict with d[key] = value set.
DictWith(d, key, value) ==
    [k \in DOMAIN d \cup {key} |-> IF k = key THEN value ELSE d[k]]

\* Faulty variant of RunEnd: run_all goes on after a run that raised.
RunEndSwallowing ==
    /\ pc = "done"
    /\ pc' = "over"
    /\ run_log' = Append(run_log, [symbol |-> symbols[sym_idx], outcome |-> outcome])
    /\ run_all' =
          IF run_all.kind # "running" THEN run_all
          ELSE LET result == DictWith(run_all.result, symbols[sym_idx], outcome.files)
               IN  IF sym_idx = Len(symbols) THEN RunAllReturned(result)
                   ELSE RunAllRunning(result)
    /\ UNCHANGED <<validatorVars, configVars, workerVars, retryVars, downloaderVars, worldVars, symbol, download_ok, html_paths,
                   collection_name, doc, relevant, inputs, summaries, i, output_files,
                   outcome, attempts, batch_log, qdrant_client, embedder, historyVars,
                   symbols, sym_idx, call_log>>

\* run(sym) is over.  Under run_all, {sym: self.run(sym) for sym in symbols}
\* stores what it returned and returns after the last symbol; what it raised
\* leaves run_all.
RunEnd ==
    /\ pc = "done"
    /\ pc' = "over"
    /\ run_log' = Append(run_log, [symbol |-> symbols[sym_idx], outcome |-> outcome])
    /\ run_all' =
          IF run_all.kind # "running" THEN run_all
          ELSE IF outcome.kind = "raised" THEN RunAllRaised(outcome.exc)
          ELSE LET result == DictWith(run_all.result, symbols[sym_idx], outcome.files)
               IN  IF sym_idx = Len(symbols) THEN RunAllReturned(result)
                   ELSE RunAllRunning(result)
    /\ UNCHANGED <<validatorVars, configVars, workerVars, retryVars, downloaderVars, worldVars, symbol, download_ok, html_paths,
                   collection_name, doc, relevant, inputs, summaries, i, output_files,
                   outcome, attempts, batch_log, qdrant_client, embedder, historyVars,
                   symbols, sym_idx, call_log>>

\* run is called with the next symbol: by run_all, or by a caller who has
\* seen the run before return or raise.  Another symbol has another filing
\* directory.
NextRun ==
    /\ pc = "over"
    /\ sym_idx < Len(symbols)
    /\ run_all.kind \in {"none", "running"}
    /\ sym_idx' = sym_idx + 1
    /\ pc' = "download"
    /\ symbol' = Normalized(symbols[sym_idx + 1])
    /\ filing_dir' \in (IF Normalized(symbols[sym_idx + 1]) = symbol
                        THEN {filing_dir}
                        ELSE {None} \cup {Some(l) : l \in SessionListings})
    /\ download_ok' = FALSE
    /\ html_paths' = <<>>
    /\ collection_name' = <<>>
    /\ doc' = 0
    /\ relevant' = <<>>
    /\ inputs' = <<>>
    /\ summaries' = <<>>
    /\ i' = 0
    /\ output_files' = <<>>
    /\ outcome' = Running
    /\ batch_log' = <<>>
    /\ UNCHANGED <<validatorVars, configVars, workerVars, retryVars, downloaderVars, collections, create_calls, points, next_id,
                   artifacts, attempts, qdrant_client, embedder, historyVars, symbols,
                   run_log, run_all, call_log>>

InitSession ==
    /\ ValidatorIdle
    /\ ComponentsIdle
    /\ dry_run \in BOOLEAN
    /\ batch_size \in SessionBatchSizes
    /\ require_json = TRUE
    /\ self_collection_name = None
    /\ qdrant_client = FALSE
    /\ embedder = FALSE
    /\ filing_dir \in {None} \cup {Some(l) : l \in SessionListings}
    /\ collections = {}
    /\ create_calls = <<>>
    /\ points = <<>>
    /\ next_id = 1
    /\ artifacts = <<>>
    /\ store_log = <<>>
    /\ upsert_ret = None
    /\ write_log = <<>>
    /\ symbols \in SymbolLists
    /\ sym_idx = 1
    /\ run_log = <<>>
    /\ run_all \in {NoRunAll, RunAllRunning(<<>>)}
    /\ call_log = <<>>
    /\ pc = "download"
    /\ symbol = Normalized(symbols[1])
    /\ download_ok = FALSE
    /\ html_paths = <<>>
    /\ collection_name = <<>>
    /\ doc = 0
    /\ relevant = <<>>
    /\ inputs = <<>>
    /\ summaries = <<>>
    /\ i = 0
    /\ output_files = <<>>
    /\ outcome = Running
    /\ attempts = <<>>
    /\ batch_log = <<>>

NextSession ==
    \/ RunDownload
    \/ RunList
    \/ RunProvision
    \/ RunChunk
    \/ RunUpsert
    \/ RunBatch
    \/ RunWrite
    \/ RunEnd
    \/ NextRun

SpecSession == InitSession /\ [][NextSession]_vars

\* ------------------------------------------------------------------------
\* Specification of the vector-store methods, called on their own
\* ------------------------------------------------------------------------

\* How many calls are made on one pipeline.
MaxDirectCalls == 2

runLocals ==
    <<pc, symbol, download_ok, html_paths, collection_name, doc, relevant, inputs,
      summaries, i, output_files, outcome, attempts, batch_log>>

\* The collection names the calls are made with.
CollectionNames == {CollectionSlug(Normalized(a), Keyword) : a \in SymbolArgs}

\* The texts, metadata and ids the calls are made with.  A supplied id is
\* a number no uuid4 of the model is.
TextLists == {<<>>, <<ChunkText(1, TRUE)>>, <<ChunkText(1, TRUE), ChunkText(2, FALSE)>>}

MetaA == [source |-> "a.html"]

MetaB == [source |-> "b.html", text |-> "stale"]

MetadataLists == {<<MetaA>>, <<MetaA, MetaB>>}

IdLists == {<<-1>>, <<-2, -1>>}

\* 'NoneType' object has no attribute 'get_collections'
AttributeError == Exception("AttributeError", "get_collections")

\* zip(ids, vectors, texts, metadata, strict=True) over unequal lengths
ValueError == Exception("ValueError", "zip()")

CallReturned(value) == [kind |-> "returned", value |-> value, exc |-> Exception("", "")]

CallRaised(e) == [kind |-> "raised", value |-> <<>>, exc |-> e]

\* One call, how it ended, the part of store_log it made (first + 1 .. last)
\* and whether the collection was there before it.
CallEntry(op, name, texts, metadata, ids, ended, first, last, present) ==
    [op |-> op, name |-> name, texts |-> texts, metadata |-> metadata, ids |-> ids,
     ended |-> ended, first |-> first, last |-> last, present |-> present]

\* _ensure_collection with dry_run set: _ensure_qdrant() returns None, the
\* embedder is built, and client.get_collections() is an AttributeError.
EnsureCollectionInDryRun ==
    /\ embedder' = TRUE
    /\ store_log' = store_log \o EnsureEmbedderCalls
    /\ UNCHANGED <<qdrant_client, collections, create_calls>>

\* self._ensure_collection(name)
CallEnsureCollection ==
    /\ pc = "idle"
    /\ Len(call_log) < MaxDirectCalls
    /\ \E name \in CollectionNames :
          LET entry(ended) ==
                  CallEntry("_ensure_collection", name, <<>>, None, None, ended,
                            Len(store_log), Len(store_log'), name \in collections)
          IN  \/ /\ dry_run
                 /\ EnsureCollectionInDryRun
                 /\ call_log' = Append(call_log, entry(CallRaised(AttributeError)))
              \/ /\ ~dry_run
                 /\ EnsureCollection(name)
                 /\ call_log' = Append(call_log, entry(CallReturned(<<>>)))
              \/ /\ ~dry_run
                 /\ EnsureCollectionRaises(name)
                 /\ call_log' = Append(call_log, entry(CallRaised(ProvisionError)))
    /\ UNCHANGED <<validatorVars, configVars, workerVars, retryVars, downloaderVars, filing_dir, points, next_id, artifacts,
                   runLocals, upsert_ret, write_log, symbols, sym_idx, run_log, run_all>>

\* {**meta, "text": text}
Payload(meta, text) ==
    [k \in DOMAIN meta \cup {"text"} |-> IF k = "text" THEN text ELSE meta[k]]

\* [str(uuid4()) for _ in texts]
FreshIds(n) == [k \in 1..n |-> next_id + k - 1]

\* Faulty variant of PointsOf: the text is left out of the payload.
PointsOfWithoutText(ids, texts, metadata) ==
    [k \in 1..Len(texts) |-> [id |-> ids[k], payload |-> metadata[k]]]

\* [PointStruct(id=point_id, vector=vector, payload={**meta, "text": text}) ...]
PointsOf(ids, texts, metadata) ==
    [k \in 1..Len(texts) |-> [id |-> ids[k], payload |-> Payload(metadata[k], texts[k])]]

\* self._embed_texts(texts): nothing is embedded for no texts.
EmbedTextsCalls(texts) ==
    IF texts = <<>> THEN <<>>
    ELSE EnsureEmbedderCalls \o <<StoreCall("encode", <<>>, texts, TRUE)>>

\* Faulty variant of NoTexts: the empty list is not singled out.
NoTextsNever(texts) == FALSE

\* if not texts
NoTexts(texts) == texts = <<>>

\* self._upsert_texts(name, texts, metadata, ids)
CallUpsertTexts ==
    /\ pc = "idle"
    /\ Len(call_log) < MaxDirectCalls
    /\ \E name \in CollectionNames, texts \in TextLists,
          metadata \in {None} \cup {Some(m) : m \in MetadataLists},
          ids \in {None} \cup {Some(l) : l \in IdLists} :
          LET entry(ended) ==
                  CallEntry("_upsert_texts", name, texts, metadata, ids, ended,
                            Len(store_log), Len(store_log'), name \in collections)
          IN  \/ /\ NoTexts(texts)
                 /\ upsert_ret' = Some(<<>>)
                 /\ UNCHANGED <<qdrant_client, embedder, store_log, points, next_id>>
                 /\ call_log' = Append(call_log, entry(CallReturned(<<>>)))
              \/ /\ ~NoTexts(texts)
                 /\ dry_run
                 /\ next_id' = next_id + Len(texts)
                 /\ upsert_ret' = Some(FreshIds(Len(texts)))
                 /\ UNCHANGED <<qdrant_client, embedder, store_log, points>>
                 /\ call_log' = Append(call_log, entry(CallReturned(FreshIds(Len(texts)))))
              \/ /\ ~NoTexts(texts)
                 /\ ~dry_run
                 /\ LET used == IF IsNone(ids) THEN FreshIds(Len(texts)) ELSE Get(ids)
                        metas == IF IsNone(metadata) THEN [k \in 1..Len(texts) |-> <<>>]
                                 ELSE Get(metadata)
                        embedded == store_log \o EnsureQdrantCalls \o EmbedTextsCalls(texts)
                    IN  /\ qdrant_client' = TRUE
                        /\ embedder' = (embedder \/ texts # <<>>)
                        /\ next_id' = IF IsNone(ids) THEN next_id + Len(texts) ELSE next_id
                        /\ IF Len(used) # Len(texts) \/ Len(metas) # Len(texts)
                           THEN /\ store_log' = embedded
                                /\ UNCHANGED <<points, upsert_ret>>
                                /\ call_log' = Append(call_log, entry(CallRaised(ValueError)))
                           ELSE \/ /\ store_log' = Append(embedded,
                                                          StoreCall("upsert", name,
                                                                    PointsOf(used, texts, metas),
                                                                    TRUE))
                                   /\ points' = points \o PointsOf(used, texts, metas)
                                   /\ upsert_ret' = Some(used)
                                   /\ call_log' = Append(call_log, entry(CallReturned(used)))
                                \/ /\ store_log' = Append(embedded,
                                                          StoreCall("upsert", name,
                                                                    PointsOf(used, texts, metas),
                                                                    FALSE))
                                   /\ UNCHANGED <<points, upsert_ret>>
                                   /\ call_log' = Append(call_log, entry(CallRaised(UpsertError)))
    /\ UNCHANGED <<validatorVars, configVars, workerVars, retryVars, downloaderVars, filing_dir, collections, create_calls,
                   artifacts, runLocals, write_log, symbols, sym_idx, run_log, run_all>>

InitStore ==
    /\ ValidatorIdle
    /\ ComponentsIdle
    /\ dry_run \in BOOLEAN
    /\ batch_size = 1
    /\ require_json = TRUE
    /\ self_collection_name = None
    /\ qdrant_client = FALSE
    /\ embedder = FALSE
    /\ filing_dir = None
    /\ collections \in SUBSET CollectionNames
    /\ create_calls = <<>>
    /\ points = <<>>
    /\ next_id = 1
    /\ artifacts = <<>>
    /\ pc = "idle"
    /\ symbol = <<>>
    /\ download_ok = FALSE
    /\ html_paths = <<>>
    /\ collection_name = <<>>
    /\ doc = 0
    /\ relevant = <<>>
    /\ inputs = <<>>
    /\ summaries = <<>>
    /\ i = 0
    /\ output_files = <<>>
    /\ outcome = Running
    /\ attempts = <<>>
    /\ batch_log = <<>>
    /\ store_log = <<>>
    /\ upsert_ret = None
    /\ write_log = <<>>
    /\ symbols = <<>>
    /\ sym_idx = 0
    /\ run_log = <<>>
    /\ run_all = NoRunAll
    /\ call_log = <<>>

NextStore ==
    \/ CallEnsureCollection
    \/ CallUpsertTexts

SpecStore == InitStore /\ [][NextStore]_vars

\* ------------------------------------------------------------------------
\* Specification of the collection name run computes
\* ------------------------------------------------------------------------

\* The symbols run is called with and the keywords of the pipeline: the
\* same letters in several cases, and others.
SlugSymbols ==
    {SymbolArg, <<"A", "A", "P", "L">>, <<" ", "a", "A", "p", "L">>, <<"p", "e", "p">>,
     <<"P", "e", "p">>}

SlugKeywords ==
    {Keyword, <<"r", "e", "v">>, <<"R", "E", "V">>, <<"r", "e", " ", "v">>}

\* Pipeline.collection_name, as configured.
ConfiguredNames == {None, Some(<<>>), Some(<<"d", "o", "c", "s">>)}

\* run(sym) on a pipeline whose keyword is keyword, as far as the name goes:
\* symbol = symbol.strip().upper(), then collection_name is computed.
CallCollectionName ==
    /\ pc = "idle"
    /\ Len(call_log) < MaxDirectCalls
    /\ \E sym \in SlugSymbols, keyword \in SlugKeywords :
          /\ symbol' = Normalized(sym)
          /\ collection_name' = CollectionName(symbol', keyword)
          /\ call_log' = Append(call_log,
                                [op |-> "collection_name", symbol |-> sym,
                                 keyword |-> keyword,
                                 ended |-> CallReturned(collection_name')])
    /\ UNCHANGED <<validatorVars, configVars, workerVars, retryVars, downloaderVars, worldVars, pc, download_ok, html_paths, doc,
                   relevant, inputs, summaries, i, output_files, outcome, attempts,
                   batch_log, qdrant_client, embedder, historyVars, symbols, sym_idx,
                   run_log, run_all>>

InitSlug ==
    /\ ValidatorIdle
    /\ ComponentsIdle
    /\ dry_run = TRUE
    /\ batch_size = 1
    /\ require_json = TRUE
    /\ self_collection_name \in ConfiguredNames
    /\ qdrant_client = FALSE
    /\ embedder = FALSE
    /\ filing_dir = None
    /\ collections = {}
    /\ create_calls = <<>>
    /\ points = <<>>
    /\ next_id = 1
    /\ artifacts = <<>>
    /\ pc = "idle"
    /\ symbol = <<>>
    /\ download_ok = FALSE
    /\ html_paths = <<>>
    /\ collection_name = <<>>
    /\ doc = 0
    /\ relevant = <<>>
    /\ inputs = <<>>
    /\ summaries = <<>>
    /\ i = 0
    /\ output_files = <<>>
    /\ outcome = Running
    /\ attempts = <<>>
    /\ batch_log = <<>>
    /\ store_log = <<>>
    /\ upsert_ret = None
    /\ write_log = <<>>
    /\ symbols = <<>>
    /\ sym_idx = 0
    /\ run_log = <<>>
    /\ run_all = NoRunAll
    /\ call_log = <<>>

NextSlug == CallCollectionName

SpecSlug == InitSlug /\ [][NextSlug]_vars

\* ------------------------------------------------------------------------
\* Properties of the collection name (checked under SpecSlug)
\* ------------------------------------------------------------------------

\* C18: on one pipeline, whenever the symbols of two calls are the same up
\* to the case of their letters, and the keywords too, the collection names
\* computed are one and the same.
C18_CollectionNameIgnoresCase ==
    \A j, k \in 1..Len(call_log) :
        (/\ Lower(call_log[j].symbol) = Lower(call_log[k].symbol)
         /\ Lower(call_log[j].keyword) = Lower(call_log[k].keyword)) =>
            call_log[j].ended.value = call_log[k].ended.value

\* Two calls whose symbols and keywords differ in case, the name not being
\* a configured one.
C18_Witness ==
    /\ Len(call_log) = 2
    /\ IsNone(self_collection_name)
    /\ call_log[1].symbol # call_log[2].symbol
    /\ call_log[1].keyword # call_log[2].keyword
    /\ Lower(call_log[1].symbol) = Lower(call_log[2].symbol)
    /\ Lower(call_log[1].keyword) = Lower(call_log[2].keyword)
    /\ call_log[1].ended.value = call_log[2].ended.value
    /\ collection_name = call_log[2].ended.value
    /\ Len(collection_name) > Len(CollectionPrefix) + 1

\* ------------------------------------------------------------------------
\* Properties of the vector-store methods (checked under SpecStore)
\* ------------------------------------------------------------------------

\* The calls call_log[k] made on the client and the embedder.
CallsOf(k) == SubSeq(store_log, call_log[k].first + 1, call_log[k].last)

\* How many create_collection calls for name lie in store_log[first + 1 .. last].
CreateCalls(name, first, last) ==
    Cardinality({j \in (first + 1)..last :
                    /\ store_log[j].op = "create_collection"
                    /\ store_log[j].name = name})

EnsureReturned(k) ==
    /\ call_log[k].op = "_ensure_collection"
    /\ call_log[k].ended.kind = "returned"

\* C14: an _ensure_collection(name) call that returns has made one
\* create_collection call for name when the collection was absent and none
\* when it was there, and leaves it there; of two such calls in sequence
\* the second only lists the collections, so that both together make one
\* create call for an absent collection and none for an existing one; the
\* client is built once.
C14_EnsureCollectionIdempotent ==
    /\ Cardinality({j \in 1..Len(store_log) : store_log[j].op = "QdrantClient"}) <= 1
    /\ \A k \in 1..Len(call_log) :
          EnsureReturned(k) =>
              LET c == call_log[k]
              IN  /\ c.name \in collections
                  /\ CreateCalls(c.name, c.first, c.last) = (IF c.present THEN 0 ELSE 1)
                  /\ (k > 1 /\ EnsureReturned(k - 1) /\ call_log[k - 1].name = c.name) =>
                        /\ c.present
                        /\ CallsOf(k) = <<StoreCall("get_collections", <<>>, <<>>, TRUE)>>
                        /\ CreateCalls(c.name, call_log[k - 1].first, c.last)
                              = (IF call_log[k - 1].present THEN 0 ELSE 1)

\* Two calls in sequence for a collection that was absent.
C14_Witness ==
    /\ Len(call_log) = 2
    /\ EnsureReturned(1)
    /\ EnsureReturned(2)
    /\ call_log[1].name = call_log[2].name
    /\ ~call_log[1].present
    /\ create_calls = <<call_log[1].name>>

\* call_log[k] is a live _upsert_texts call with texts, whose metadata and
\* ids, when given, are as many as the texts.
LiveUpsert(k) ==
    LET c == call_log[k]
    IN  /\ c.op = "_upsert_texts"
        /\ ~dry_run
        /\ c.texts # <<>>
        /\ IsSome(c.metadata) => Len(Get(c.metadata)) = Len(c.texts)
        /\ IsSome(c.ids) => Len(Get(c.ids)) = Len(c.texts)

\* The metadata of the j-th text of call_log[k]: {} when none was given.
MetaOf(k, j) ==
    IF IsNone(call_log[k].metadata) THEN <<>> ELSE Get(call_log[k].metadata)[j]

\* C16: a live _upsert_texts call with texts embeds them and then makes one
\* upsert call, its only one, to the collection named, carrying one point
\* per text whose payload is that text's metadata with the text under
\* "text"; when the upsert returns, the call returns the points' ids in the
\* order of the texts: the ids given, or else new ones, all different.
C16_UpsertOnePointPerText ==
    \A k \in 1..Len(call_log) :
        LiveUpsert(k) =>
            LET c == call_log[k]
                made == CallsOf(k)
                n == Len(made)
            IN  /\ n >= 2
                /\ made[n - 1] = StoreCall("encode", <<>>, c.texts, TRUE)
                /\ made[n].op = "upsert"
                /\ made[n].name = c.name
                /\ \A j \in 1..(n - 1) : made[j].op # "upsert"
                /\ Len(made[n].arg) = Len(c.texts)
                /\ \A j \in 1..Len(c.texts) :
                      LET payload == made[n].arg[j].payload
                      IN  /\ DOMAIN payload = DOMAIN MetaOf(k, j) \cup {"text"}
                          /\ payload["text"] = c.texts[j]
                          /\ \A key \in DOMAIN MetaOf(k, j) \ {"text"} :
                                payload[key] = MetaOf(k, j)[key]
                /\ c.ended.kind = (IF made[n].ok THEN "returned" ELSE "raised")
                /\ made[n].ok =>
                      /\ Len(c.ended.value) = Len(c.texts)
                      /\ \A j \in 1..Len(c.texts) : made[n].arg[j].id = c.ended.value[j]
                      /\ IF IsSome(c.ids) THEN c.ended.value = Get(c.ids)
                         ELSE \A j1, j2 \in 1..Len(c.texts) :
                                 j1 # j2 => c.ended.value[j1] # c.ended.value[j2]

\* One call without ids and one with, two texts each, both returned.
C16_Witness ==
    /\ Len(call_log) = 2
    /\ LiveUpsert(1)
    /\ LiveUpsert(2)
    /\ Len(call_log[1].texts) = 2
    /\ Len(call_log[2].texts) = 2
    /\ IsNone(call_log[1].ids)
    /\ IsSome(call_log[2].ids)
    /\ IsSome(call_log[1].metadata)
    /\ call_log[1].ended.kind = "returned"
    /\ call_log[2].ended.kind = "returned"
    /\ Len(points) = 4

\* C17: an _upsert_texts call with no texts returns the empty list and
\* builds no client and no embedder, calls neither, and leaves the store as
\* it is, in dry-run or not.
C17_NoTextsNoCall ==
    [][(/\ Len(call_log') = Len(call_log) + 1
        /\ call_log'[Len(call_log')].op = "_upsert_texts"
        /\ call_log'[Len(call_log')].texts = <<>>) =>
            /\ call_log'[Len(call_log')].ended = CallReturned(<<>>)
            /\ UNCHANGED <<store_log, qdrant_client, embedder, points, collections,
                           create_calls, next_id>>]_vars

\* Two calls with no texts on a live pipeline, no client built.
C17_Witness ==
    /\ ~dry_run
    /\ Len(call_log) = 2
    /\ \A k \in 1..2 : /\ call_log[k].op = "_upsert_texts"
                       /\ call_log[k].texts = <<>>
                       /\ call_log[k].ended = CallReturned(<<>>)
    /\ IsSome(call_log[2].ids)
    /\ store_log = <<>>
    /\ ~qdrant_client
    /\ ~embedder

\* ------------------------------------------------------------------------
\* Properties of run_all and of repeated runs (checked under SpecSession)
\* ------------------------------------------------------------------------

\* The last run made for the symbol sym.
LastRunOf(sym) ==
    run_log[CHOOSE k \in 1..Len(run_log) :
                /\ run_log[k].symbol = sym
                /\ \A j \in (k + 1)..Len(run_log) : run_log[j].symbol # sym]

\* C13: under run_all the runs are made for the listed symbols in list
\* order, one run at a time; a run that raises is the last one, run_all
\* raises its exception and no later symbol is run; when every run has
\* returned, run_all returns the map from each symbol to what its run
\* returned; the artifacts written stay on disk.
C13_RunAllInOrderStopsAtException ==
    run_all.kind # "none" =>
        /\ Len(run_log) <= Len(symbols)
        /\ \A k \in 1..Len(run_log) : run_log[k].symbol = symbols[k]
        /\ sym_idx = Len(run_log) + (IF pc = "over" THEN 0 ELSE 1)
        /\ \A k \in 1..Len(run_log) :
              run_log[k].outcome.kind = "raised" =>
                  /\ k = Len(run_log)
                  /\ pc = "over"
                  /\ run_all = RunAllRaised(run_log[k].outcome.exc)
        /\ run_all.kind = "raised" =>
              /\ Len(run_log) >= 1
              /\ run_log[Len(run_log)].outcome.kind = "raised"
        /\ run_all.kind = "returned" =>
              /\ Len(run_log) = Len(symbols)
              /\ DOMAIN run_all.result = {symbols[k] : k \in 1..Len(symbols)}
              /\ \A sym \in DOMAIN run_all.result :
                    run_all.result[sym] = LastRunOf(sym).outcome.files
        /\ \A k \in 1..Len(write_log) : HasFile(write_log[k].path)

\* The first symbol's run wrote an artifact, the second one's raised.
C13_Witness ==
    /\ run_all.kind = "raised"
    /\ Len(run_log) = 2
    /\ run_log[1].symbol # run_log[2].symbol
    /\ Len(run_log[1].outcome.files) = 1
    /\ Len(write_log) = 1
    /\ HasFile(write_log[1].path)
    /\ run_all.exc = run_log[2].outcome.exc

\* What a dry run has touched of the vector store and the embedder: nothing.
StoreUntouched ==
    /\ store_log = <<>>
    /\ ~qdrant_client
    /\ ~embedder
    /\ create_calls = <<>>
    /\ collections = {}
    /\ points = <<>>

\* How run goes on after the provisioning block.
ProvisionedEffect ==
    /\ pc' = "chunk"
    /\ output_files' = <<>>
    /\ doc' = 1
    /\ UNCHANGED <<filing_dir, artifacts, html_paths, attempts, write_log, next_id>>

\* How run goes on after _upsert_texts has returned.
UpsertedEffect ==
    /\ pc' = "batch"
    /\ upsert_ret' = Some([k \in 1..Len(relevant) |-> next_id + k - 1])
    /\ next_id' = next_id + Len(relevant)
    /\ inputs' = [k \in 1..Len(relevant) |-> SummarizationInput(symbol, relevant[k])]
    /\ summaries' = <<>>
    /\ i' = 0
    /\ UNCHANGED <<filing_dir, artifacts, html_paths, attempts, write_log, doc, relevant,
                   output_files>>

\* C15: in dry-run, whatever runs are made, no client or embedder is built
\* and no call reaches the vector store or the embedder; the provisioning
\* and upsert blocks never raise and leave run where a live run whose calls
\* returned would be; _upsert_texts returns one id per text.
C15_DryRunMakesNoStoreCall ==
    /\ [](dry_run =>
             /\ StoreUntouched
             /\ pc \in {"batch", "write"} =>
                   /\ IsSome(upsert_ret)
                   /\ Len(Get(upsert_ret)) = Len(relevant))
    /\ [][(dry_run \/ pc' # "done") =>
             /\ pc = "provision" => ProvisionedEffect
             /\ pc = "upsert" => UpsertedEffect]_vars

\* Two dry runs are over, an artifact is written, ids were returned.
C15_Witness ==
    /\ dry_run
    /\ Len(run_log) = 2
    /\ run_log[2].outcome.kind = "returned"
    /\ Len(run_log[2].outcome.files) = 1
    /\ IsSome(upsert_ret)
    /\ Len(Get(upsert_ret)) > 0
    /\ HasFile(run_log[2].outcome.files[1])
    /\ StoreUntouched

\* write_log[k] was made for document path by a run for the symbol sym.
WroteFor(k, sym, path) ==
    /\ write_log[k].doc = path
    /\ Normalized(symbols[write_log[k].run]) = sym

\* C19: when a run writes the artifact of a document that an earlier run
\* for the same symbol wrote, it writes to the same path, the files on disk
\* stay the same in number, and the file holds this run's summaries of the
\* document and nothing else; the other files are left as they are.
C19_RerunOverwrites ==
    [][Len(write_log') = Len(write_log) + 1 =>
          LET w == write_log'[Len(write_log')]
          IN  /\ w.run = sym_idx
              /\ w.doc = html_paths[doc]
              /\ DOMAIN artifacts' = DOMAIN artifacts \cup {w.path}
              /\ \A p \in DOMAIN artifacts \ {w.path} : artifacts'[p] = artifacts[p]
              /\ artifacts'[w.path].symbol = symbol
              /\ artifacts'[w.path].document = FileName(w.doc)
              /\ artifacts'[w.path].collection = collection_name
              /\ artifacts'[w.path].summaries = summaries
              /\ Len(summaries) = attempts[Len(attempts)].matching
              /\ \A k \in 1..Len(write_log) :
                    WroteFor(k, symbol, w.doc) =>
                        /\ write_log[k].path = w.path
                        /\ DOMAIN artifacts' = DOMAIN artifacts]_vars

\* The second run for a symbol has written the artifact of the document the
\* first run wrote; one file is there.
C19_Witness ==
    /\ Len(write_log) = 2
    /\ write_log[1].run = 1
    /\ write_log[2].run = 2
    /\ write_log[1].doc = write_log[2].doc
    /\ write_log[1].path = write_log[2].path
    /\ DOMAIN artifacts = {write_log[2].path}
    /\ Len(artifacts[write_log[2].path].summaries) = 1
    /\ pc = "over"

\* The upsert calls that returned, made for a document of a symbol.
UpsertsFor(source, sym) ==
    {k \in 1..Len(store_log) :
        /\ store_log[k].op = "upsert"
        /\ store_log[k].ok
        /\ store_log[k].arg[1].payload.source = source
        /\ store_log[k].arg[1].payload.symbol = sym}

\* The points the store holds for a document of a symbol.
PointsFor(source, sym) ==
    {k \in 1..Len(points) :
        /\ points[k].payload.source = source
        /\ points[k].payload.symbol = sym}

\* C30: the points of the store carry ids that differ pairwise; no step
\* removes or changes a point; a live upsert that returns adds one point
\* per matching chunk of the document, under ids the store does not hold;
\* so when k upserts were made for a document, each of the n chunks its
\* artifact has entries for, the store holds k * n points for it, while the
\* artifact holds n entries.
C30_PointsAccumulateAcrossRuns ==
    /\ [](\A a, b \in 1..Len(points) : a # b => points[a].id # points[b].id)
    /\ [](\A path \in DOMAIN artifacts :
             LET n == Len(artifacts[path].summaries)
                 ups == UpsertsFor(artifacts[path].document, artifacts[path].symbol)
             IN  (~dry_run /\ \A k \in ups : Len(store_log[k].arg) = n) =>
                     Cardinality(PointsFor(artifacts[path].document, artifacts[path].symbol))
                        = Cardinality(ups) * n)
    /\ [][/\ Len(points') >= Len(points)
          /\ SubSeq(points', 1, Len(points)) = points
          /\ (pc = "upsert" /\ pc' = "batch" /\ ~dry_run) =>
                /\ Len(points') = Len(points) + Len(relevant)
                /\ Len(relevant) = attempts[Len(attempts)].matching
                /\ \A k \in 1..Len(relevant) :
                      /\ points'[Len(points) + k].payload.text = relevant[k]
                      /\ \A j \in 1..Len(points) :
                            points[j].id # points'[Len(points) + k].id]_vars

\* Two live runs for a symbol have each upserted and written the one
\* matching chunk of the same document: two points, one entry.
C30_Witness ==
    /\ pc = "over"
    /\ ~dry_run
    /\ Len(write_log) = 2
    /\ write_log[1].path = write_log[2].path
    /\ write_log[1].run = 1
    /\ write_log[2].run = 2
    /\ Len(points) = 2
    /\ points[1].payload = points[2].payload
    /\ points[1].id # points[2].id
    /\ Len(artifacts[write_log[2].path].summaries) = 1
    /\ Cardinality(UpsertsFor(artifacts[write_log[2].path].document,
                              artifacts[write_log[2].path].symbol)) = 2

\* ------------------------------------------------------------------------
\* Properties of run (checked under Spec)
\* ------------------------------------------------------------------------

\* The entry of batch_log whose window holds the k-th matching chunk.
WindowOf(k) ==
    batch_log[CHOOSE w \in 1..Len(batch_log) :
                  batch_log[w].first < k /\ k <= batch_log[w].first + batch_log[w].size]

RECURSIVE Batched(_)
\* The number of chunks in the windows of a log.
Batched(log) == IF Len(log) = 0 THEN 0 ELSE Head(log).size + Batched(Tail(log))

Mentions(text, e) ==
    /\ \E j \in 1..Len(text) : text[j] = e.type
    /\ \E j \in 1..Len(text) : text[j] = e.msg

\* sums holds one entry per batched chunk, in chunk order: an error entry
\* mentioning the exception where the chunk's window raised, and what the
\* chain gives for the chunk where it did not.
EntriesFollowWindows(sums) ==
    /\ Len(sums) = Batched(batch_log)
    /\ \A k \in 1..Len(sums) :
          IF WindowOf(k).raised
          THEN /\ IsSome(sums[k].error)
               /\ Mentions(Get(sums[k].error), BatchError)
          ELSE sums[k] = GraphInvoke(inputs[k], require_json).summary

LastFile == output_files[Len(output_files)]

\* C1: a graph.batch call that raises never ends run; while a document is
\* summarized, and in the artifact written for it, every chunk of a raised
\* window has an error entry mentioning the exception, every other chunk has
\* the entry its own window produced, and the entries are in chunk order.
C1_BatchFailureIsolated ==
    /\ outcome.at # "batch"
    /\ pc \in {"batch", "write"} => EntriesFollowWindows(summaries)
    /\ (pc \in {"chunk", "done"} /\ outcome.at # "write" /\ output_files # <<>>) =>
          /\ HasFile(LastFile)
          /\ EntriesFollowWindows(artifacts[LastFile].summaries)

\* Window 2 of 3 raised and the artifact holds windows 1 and 3 populated.
C1_Witness ==
    /\ pc = "chunk"
    /\ output_files # <<>>
    /\ Len(batch_log) = 3
    /\ ~batch_log[1].raised /\ batch_log[2].raised /\ ~batch_log[3].raised
    /\ LET written == artifacts[LastFile].summaries
       IN  /\ Len(written) = Len(inputs)
           /\ IsNone(written[1].error)
           /\ IsSome(written[1].summary)
           /\ IsSome(written[batch_log[2].first + 1].error)
           /\ written[Len(written)] = GraphInvoke(inputs[Len(inputs)], require_json).summary

DocumentStages == {"chunk", "upsert", "write"}

\* The keyword occurs in the text, whatever the case of the letters.
HasKeyword(text) ==
    \E k \in 1..Len(text) :
        /\ k + Len(Keyword) - 1 <= Len(text)
        /\ \A j \in 1..Len(Keyword) : UpperChar(text[k + j - 1]) = UpperChar(Keyword[j])

NoChunkHasKeyword(chunks) == \A k \in 1..Len(chunks) : ~HasKeyword(chunks[k])

\* C11: a step that chunks a document none of whose chunks holds the keyword
\* (in any case) makes no vector-store or embedder call, submits no window,
\* writes no artifact, does not end run, and moves on to the next document;
\* a document with a chunk that holds it goes on to the upsert.
C11_NoMatchSkipped ==
    [][(pc = "chunk" /\ Len(attempts') = Len(attempts) + 1) =>
          IF NoChunkHasKeyword(attempts'[Len(attempts')].chunks)
          THEN /\ pc' = "chunk"
               /\ doc' = doc + 1
               /\ UNCHANGED <<points, store_log, upsert_ret, batch_log, summaries,
                              artifacts, write_log, output_files, outcome>>
          ELSE /\ pc' = "upsert"
               /\ doc' = doc]_vars

\* A document with chunks but no match was passed over, and the next one
\* was summarized and written.
C11_Witness ==
    /\ outcome.kind = "returned"
    /\ Len(attempts) = 2
    /\ Len(attempts[1].chunks) > 0
    /\ NoChunkHasKeyword(attempts[1].chunks)
    /\ Len(write_log) = 1
    /\ write_log[1].doc = attempts[2].path
    /\ outcome.files = <<write_log[1].path>>

\* A call of collection provisioning has failed.
ProvisioningFailed ==
    \E k \in 1..Len(store_log) :
        /\ store_log[k].op \in {"get_collections", "create_collection"}
        /\ ~store_log[k].ok

UpsertCalled == \E k \in 1..Len(store_log) : store_log[k].op = "upsert"

\* C12: once a provisioning call has failed (not in dry-run), run has ended
\* by raising that exception, and there has been no upsert, no chunking, no
\* summarization call and no artifact write.
C12_ProvisioningFailurePropagates ==
    ProvisioningFailed =>
        /\ ~dry_run
        /\ pc = "done"
        /\ outcome = RaisedAt("provision", ProvisionError)
        /\ ~UpsertCalled
        /\ points = <<>>
        /\ upsert_ret = None
        /\ attempts = <<>>
        /\ batch_log = <<>>
        /\ write_log = <<>>
        /\ artifacts = <<>>

C12_Witness ==
    /\ ProvisioningFailed
    /\ Len(html_paths) = 2
    /\ outcome.kind = "raised"
    /\ outcome.exc = ProvisionError

\* The documents chunked so far that had a matching chunk, in order.
RECURSIVE MatchingDocs(_)
MatchingDocs(log) ==
    IF Len(log) = 0 THEN <<>>
    ELSE IF Head(log).matching > 0 THEN <<Head(log).path>> \o MatchingDocs(Tail(log))
         ELSE MatchingDocs(Tail(log))

\* C20: within one run no artifact path is written twice; output_files is
\* the paths written, in the order of the writes; and when run returns, it
\* returns one path for each document that had a matching chunk, in the
\* order of the documents.
C20_ArtifactPathsWrittenOnce ==
    /\ \A j, k \in 1..Len(write_log) :
          j # k => write_log[j].path # write_log[k].path
    /\ output_files = [k \in 1..Len(write_log) |-> write_log[k].path]
    /\ (pc = "done" /\ outcome.kind = "returned") =>
          /\ outcome.files = output_files
          /\ [k \in 1..Len(write_log) |-> write_log[k].doc] = MatchingDocs(attempts)

RECURSIVE KeywordChunks(_)
\* The chunks that hold the keyword, in the order they came.
KeywordChunks(chunks) ==
    IF Len(chunks) = 0 THEN <<>>
    ELSE IF HasKeyword(Head(chunks)) THEN <<Head(chunks)>> \o KeywordChunks(Tail(chunks))
         ELSE KeywordChunks(Tail(chunks))

\* C21: the summaries written for a document are as many as the chunks of
\* the document that hold the keyword, and the k-th of them is what the
\* chain gives for the k-th such chunk, in the order transform_html returned
\* the chunks, or an error entry where that chunk's window raised.
C21_OneEntryPerMatchingChunkInOrder ==
    [][Len(write_log') = Len(write_log) + 1 =>
          LET written == artifacts'[write_log'[Len(write_log')].path].summaries
              matching == KeywordChunks(attempts[Len(attempts)].chunks)
          IN  /\ attempts[Len(attempts)].path = html_paths[doc]
              /\ Len(written) = Len(matching)
              /\ \A k \in 1..Len(matching) :
                    IF WindowOf(k).raised
                    THEN /\ IsSome(written[k].error)
                         /\ Mentions(Get(written[k].error), BatchError)
                    ELSE written[k] =
                            GraphInvoke(SummarizationInput(symbol, matching[k]),
                                        require_json).summary]_vars

\* An artifact of three entries for a document of four chunks, the second
\* of which does not hold the keyword; the second window raised.
C21_Witness ==
    /\ Len(write_log) = 1
    /\ pc = "chunk"
    /\ batch_size = 1
    /\ Len(attempts) = 1
    /\ Len(attempts[1].chunks) = 4
    /\ ~HasKeyword(attempts[1].chunks[2])
    /\ Len(batch_log) = 3
    /\ batch_log[2].raised
    /\ ~batch_log[1].raised
    /\ ~batch_log[3].raised
    /\ Len(artifacts[write_log[1].path].summaries) = 3

\* run has returned after one listed document with one matching chunk,
\* whose only window returned, the model's answer being valid JSON.
OneValidChunkScenario ==
    /\ pc = "done"
    /\ outcome.kind = "returned"
    /\ Len(html_paths) = 1
    /\ Len(attempts) = 1
    /\ attempts[1].matching = 1
    /\ Len(batch_log) = 1
    /\ ~batch_log[1].raised
    /\ inputs[1].chunk[1] = "R"

\* The first entry of the artifact run has returned.
FirstEntry == artifacts[outcome.files[1]].summaries[1]

Unset(entry, key) == key \notin DOMAIN entry \/ IsNone(entry[key])

NoContent(entry) ==
    /\ Unset(entry, "summary")
    /\ Unset(entry, "points")
    /\ Unset(entry, "confidence")

\* C27: every entry standing for a chunk of a window that raised has the
\* error "Exception: <type>: <message>" of what was raised and no summary,
\* points or confidence; and every entry of every artifact that has an
\* error has no summary, points or confidence.
C27_ErrorEntriesCarryNoContent ==
    /\ pc \in {"batch", "write"} =>
          \A k \in 1..Len(summaries) :
              WindowOf(k).raised =>
                  /\ summaries[k].error
                        = Some(<<"Exception: ", BatchError.type, ": ", BatchError.msg>>)
                  /\ NoContent(summaries[k])
    /\ \A p \in DOMAIN artifacts :
          \A k \in 1..Len(artifacts[p].summaries) :
              IsSome(artifacts[p].summaries[k].error) =>
                  NoContent(artifacts[p].summaries[k])

\* Where run may go next from where it stands.
StageOrder ==
    /\ pc = "provision" => pc' \in {"chunk", "done"}
    /\ pc = "chunk" =>
          \/ pc' = "done" /\ doc' = doc
          \/ pc' = "upsert" /\ doc' = doc
          \/ pc' = "chunk" /\ doc' = doc + 1 /\ attempts'[Len(attempts')].matching = 0
    /\ pc = "upsert" => (pc' \in {"batch", "done"} /\ doc' = doc)
    /\ pc = "batch" =>
          /\ doc' = doc
          /\ \/ pc' = "done"
             \/ pc' = "batch" /\ Batched(batch_log') < Len(inputs)
             \/ pc' = "write" /\ Batched(batch_log') = Len(inputs)
    /\ pc = "write" =>
          \/ pc' = "done" /\ doc' = doc
          \/ /\ pc' = "chunk"
             /\ doc' = doc + 1
             /\ write_log'[Len(write_log')].doc = html_paths[doc]
    /\ pc = "done" => pc' = "done"

\* C25: run goes from stage to stage in the one order: every upsert call
\* comes after get_collections has returned and finds the collection there;
\* a document is chunked, then upserted, then batched window after window
\* from the first input to the last, then written; the documents are taken
\* in the order listed, the next one only when the one before is written or
\* was skipped for want of a matching chunk.
C25_StagesInOrder ==
    /\ [](/\ \A j \in 1..Len(store_log) :
                store_log[j].op = "upsert" =>
                    /\ \E k \in 1..(j - 1) : /\ store_log[k].op = "get_collections"
                                             /\ store_log[k].ok
                    /\ store_log[j].name \in collections
          /\ \A k \in 1..Len(attempts) : attempts[k].path = html_paths[k]
          /\ pc \in {"upsert", "batch", "write"} => Len(attempts) = doc
          /\ pc \in {"batch", "write"} =>
                \A k \in 1..Len(batch_log) : batch_log[k].first = (k - 1) * batch_size
          /\ \A k \in 1..Len(write_log) :
                \E j \in 1..Len(attempts) :
                    /\ attempts[j].path = write_log[k].doc
                    /\ attempts[j].matching > 0
                    /\ (k < Len(write_log)) =>
                          \E j2 \in (j + 1)..Len(attempts) :
                              attempts[j2].path = write_log[k + 1].doc)
    /\ [][StageOrder]_vars

\* A live run over two documents, two windows each, both written.
C25_Witness ==
    /\ ~dry_run
    /\ pc = "done"
    /\ outcome.kind = "returned"
    /\ Len(write_log) = 2
    /\ Len(batch_log) = 2
    /\ Len(store_log) >= 6
    /\ write_log[1].doc = html_paths[1]
    /\ write_log[2].doc = html_paths[2]

\* ceil(n / b)
CeilDiv(n, b) == (n + b - 1) \div b

\* C26: the windows submitted for a document are the consecutive slices of
\* its inputs, batch_size long but for a shorter last one, each submitted
\* once, raised or not; when the document is ready to be written they are
\* ceil(n / batch_size) in number and every input lies in exactly one.
C26_WindowsPartitionInputs ==
    pc \in {"batch", "write"} =>
        LET n == Len(inputs)
            b == batch_size
        IN  /\ n = attempts[Len(attempts)].matching
            /\ \A k \in 1..Len(batch_log) :
                  /\ batch_log[k].first = (k - 1) * b
                  /\ batch_log[k].size >= 1
                  /\ batch_log[k].size
                        = (IF k * b <= n THEN b ELSE n - (k - 1) * b)
            /\ pc = "batch" => Len(batch_log) < CeilDiv(n, b)
            /\ pc = "write" =>
                  /\ Len(batch_log) = CeilDiv(n, b)
                  /\ \A j \in 1..n :
                        Cardinality({k \in 1..Len(batch_log) :
                                        /\ batch_log[k].first < j
                                        /\ j <= batch_log[k].first + batch_log[k].size}) = 1

\* Three inputs in windows of two: the first window raised, the second
\* holds the one input left.
C26_Witness ==
    /\ pc = "write"
    /\ batch_size = 2
    /\ Len(inputs) = 3
    /\ Len(batch_log) = 2
    /\ batch_log[1].raised
    /\ batch_log[1].size = 2
    /\ batch_log[2].size = 1
    /\ Len(summaries) = 3

\* C2: when run has ended on an exception raised while one document was
\* processed, no listed document was left unprocessed after it.
C2_DocumentFailureIsolated ==
    (pc = "done" /\ outcome.kind = "raised" /\ outcome.at \in DocumentStages) =>
        doc >= Len(html_paths)

\* C3: when run has ended, every document that was chunked and had a
\* matching chunk has its artifact on disk.
C3_AttemptedDocumentHasArtifact ==
    pc = "done" =>
        \A k \in 1..Len(attempts) :
            attempts[k].matching > 0 =>
                HasFile(OutFile(symbol, Keyword, attempts[k].path))

\* C10: once the download has reported failure, or has left no filing
\* directory, run raises nothing, goes no further than listing the filings,
\* and ends by returning the empty list.
C10_NoFilingsReturnsEmpty ==
    (pc # "download" /\ pc # "idle" /\ (~download_ok \/ IsNone(filing_dir))) =>
        /\ outcome.kind # "raised"
        /\ pc \in {"list", "done"}
        /\ pc = "done" => outcome = ReturnedFiles(<<>>)
        /\ create_calls = <<>> /\ points = <<>> /\ batch_log = <<>> /\ artifacts = <<>>

\* ------------------------------------------------------------------------
\* Specification of the validator on its own
\* ------------------------------------------------------------------------

\* SummaryPayload.validate_from_json(raw) is called; the adapter is built on
\* the first call that gets as far as the schema check.
CallValidateFromJson ==
    /\ Len(calls) < MaxCalls
    /\ calls' = Append(calls, validate_from_json(raw))
    /\ adapter' = (adapter \/ json_loads(raw).ok)
    /\ UNCHANGED <<raw, output, configVars, workerVars, retryVars, downloaderVars, worldVars, runVars, historyVars, sessionVars>>

\* The runnable's _validate(raw) is called, built with either require_json.
CallValidate ==
    /\ IsNone(output)
    /\ \E rj \in BOOLEAN :
          LET v == Validate(raw, rj)
          IN  output' = Some([require_json |-> rj, raised |-> v.raised,
                              status |-> v.status, summary |-> v.summary])
    /\ adapter' = TRUE
    /\ UNCHANGED <<raw, calls, configVars, workerVars, retryVars, downloaderVars, worldVars, runVars, historyVars, sessionVars>>

PipelineIdle ==
    /\ dry_run = TRUE
    /\ batch_size = 1
    /\ require_json = TRUE
    /\ self_collection_name = None
    /\ qdrant_client = FALSE
    /\ embedder = FALSE
    /\ filing_dir = None
    /\ collections = {}
    /\ create_calls = <<>>
    /\ points = <<>>
    /\ next_id = 1
    /\ artifacts = <<>>
    /\ pc = "idle"
    /\ symbol = <<>>
    /\ download_ok = FALSE
    /\ html_paths = <<>>
    /\ collection_name = <<>>
    /\ doc = 0
    /\ relevant = <<>>
    /\ inputs = <<>>
    /\ summaries = <<>>
    /\ i = 0
    /\ output_files = <<>>
    /\ outcome = Running
    /\ attempts = <<>>
    /\ batch_log = <<>>
    /\ store_log = <<>>
    /\ upsert_ret = None
    /\ write_log = <<>>
    /\ symbols = <<>>
    /\ sym_idx = 0
    /\ run_log = <<>>
    /\ run_all = NoRunAll
    /\ call_log = <<>>

InitValidate ==
    /\ \/ raw \in OtherTexts
       \/ \E s \in SummaryOptions, p \in PointsOptions, c \in ConfidenceOptions,
             e \in ErrorOptions :
             raw = Dumps(ObjectOf(s, p, c, e))
    /\ calls = <<>>
    /\ output = None
    /\ adapter = FALSE
    /\ PipelineIdle
    /\ ComponentsIdle

NextValidate ==
    \/ CallValidateFromJson
    \/ CallValidate

SpecValidate == InitValidate /\ [][NextValidate]_vars

\* ------------------------------------------------------------------------
\* Specification of the window loop's body, for any stage
\* ------------------------------------------------------------------------

\* What a stage may return for one input: a validated payload under
\* status "ok", an error payload under status "error", and an output
\* without "summary".
OkOutput ==
    [status |-> "ok",
     summary |-> SummaryPayload(Some(<<"Revenue up">>), Some(<< <<"X">> >>), Some(9),
                                None, None)]

ErrorOutput == [status |-> "error", summary |-> ParseErrorPayload(<<"not json">>)]

NoSummaryOutput == [status |-> "ok"]

StageOutputs == {OkOutput, ErrorOutput, NoSummaryOutput}

\* The lists graph.batch may return for a window.
ResultLists == {<<>>} \cup {<<a>> : a \in StageOutputs}
               \cup {<<a, b>> : a \in StageOutputs, b \in StageOutputs}

\* The windows a raising graph.batch was called with.
FailedWindows ==
    {<<SummarizationInput(<<"A", "A", "P", "L">>, ChunkText(1, TRUE))>>,
     <<SummarizationInput(<<"A", "A", "P", "L">>, ChunkText(1, TRUE)),
       SummarizationInput(<<"A", "A", "P", "L">>, ChunkText(2, TRUE))>>}

\* What a raising graph.batch raised.
StageErrors == {BatchError, Exception("ValueError", "")}

\* One turn of the loop over the windows, on the summaries gathered so far:
\* graph.batch returns results, or raises e on window.
CallWindow ==
    /\ pc = "idle"
    /\ Len(call_log) < MaxDirectCalls
    /\ \/ \E results \in ResultLists :
             /\ summaries' = BatchReturned(summaries, results).summaries
             /\ call_log' = Append(call_log,
                                   [op |-> "batch", raised |-> FALSE, results |-> results,
                                    window |-> <<>>, exc |-> Exception("", "")])
       \/ \E window \in FailedWindows, e \in StageErrors :
             /\ summaries' = BatchFailed(summaries, window, e).summaries
             /\ call_log' = Append(call_log,
                                   [op |-> "batch", raised |-> TRUE, results |-> <<>>,
                                    window |-> window, exc |-> e])
    /\ UNCHANGED <<validatorVars, configVars, workerVars, retryVars, downloaderVars, worldVars, pc, symbol, download_ok, html_paths,
                   collection_name, doc, relevant, inputs, i, output_files, outcome,
                   attempts, batch_log, qdrant_client, embedder, historyVars, symbols,
                   sym_idx, run_log, run_all>>

InitWindow ==
    /\ ValidatorIdle
    /\ PipelineIdle
    /\ ComponentsIdle

NextWindow == CallWindow

SpecWindow == InitWindow /\ [][NextWindow]_vars

\* ------------------------------------------------------------------------
\* Properties of the window loop's body (checked under SpecWindow)
\* ------------------------------------------------------------------------

\* The entries the last turn added.
Added == SubSeq(summaries', Len(summaries) + 1, Len(summaries'))

LastCall == call_log'[Len(call_log')]

\* C23: a turn whose graph.batch returned keeps the entries gathered and
\* adds one entry per output, in order: the mapping under the output's
\* "summary" key as it is, or, for an output without that key, an entry
\* whose error is "No summary payload returned.".
C23_PayloadOrPlaceholderAppended ==
    [][(Len(call_log') = Len(call_log) + 1 /\ ~LastCall.raised) =>
          /\ SubSeq(summaries', 1, Len(summaries)) = summaries
          /\ Len(Added) = Len(LastCall.results)
          /\ \A k \in 1..Len(Added) :
                IF "summary" \in DOMAIN LastCall.results[k]
                THEN /\ Added[k] = LastCall.results[k].summary
                     /\ "status" \notin DOMAIN Added[k]
                ELSE Added[k].error = Some(<<"No summary payload returned.">>)]_vars

\* An output with a valid payload and one without "summary", after a turn
\* that left an entry.
C23_Witness ==
    /\ Len(call_log) = 2
    /\ ~call_log[2].raised
    /\ call_log[2].results = <<OkOutput, NoSummaryOutput>>
    /\ Len(summaries) = 3
    /\ summaries[2] = OkOutput.summary
    /\ IsSome(summaries[2].summary)
    /\ IsNone(summaries[2].error)
    /\ summaries[3].error = Some(<<"No summary payload returned.">>)

\* ------------------------------------------------------------------------
\* Specification of SECFilingDownloader (sec_nlp/core/downloader.py)
\* ------------------------------------------------------------------------

\* The symbols add_symbol is called with.
DownloadSymbolArgs == {SymbolArg, <<"A", "A", "P", "L">>, <<"p", "e", "p">>, <<"e", "a">>}

\* The order of the letters.
CharRank(c) ==
    CASE c = "A" -> 1 [] c = "E" -> 2 [] c = "L" -> 3 [] c = "P" -> 4
      [] c = "R" -> 5 [] c = "V" -> 6 [] OTHER -> 0

RECURSIVE StrLess(_, _)
\* s < t, for strings
StrLess(s, t) ==
    IF Len(t) = 0 THEN FALSE
    ELSE IF Len(s) = 0 THEN TRUE
    ELSE IF Head(s) = Head(t) THEN StrLess(Tail(s), Tail(t))
    ELSE CharRank(Head(s)) < CharRank(Head(t))

RECURSIVE Sorted(_)
\* sorted(S)
Sorted(S) ==
    IF S = {} THEN <<>>
    ELSE LET least == CHOOSE x \in S : \A y \in S \ {x} : StrLess(x, y)
         IN  <<least>> \o Sorted(S \ {least})

\* add_symbol(symbol)
AddSymbol ==
    /\ dl_pc \in {"idle", "returned", "raised"}
    /\ \E sym \in DownloadSymbolArgs : dl_symbols' = dl_symbols \cup {Upper(Strip(sym))}
    /\ dl_symbols' # dl_symbols
    /\ dl_pc' = "idle"
    /\ UNCHANGED <<validatorVars, configVars, workerVars, retryVars, worldVars, runVars, historyVars, sessionVars,
                   dl_todo, dl_results, dl_gets, dl_calls>>

\* download_filings(...) is called: ValueError without symbols, else the
\* loop over sorted(self._symbols) begins with results = {}.
DownloadStart ==
    /\ dl_pc \in {"idle", "returned"}
    /\ dl_calls < MaxDirectCalls
    /\ dl_calls' = dl_calls + 1
    /\ dl_gets' = <<>>
    /\ dl_results' = <<>>
    /\ IF dl_symbols = {}
       THEN /\ dl_pc' = "raised"
            /\ dl_todo' = <<>>
       ELSE /\ dl_pc' = "loop"
            /\ dl_todo' = Sorted(dl_symbols)
    /\ UNCHANGED <<validatorVars, configVars, workerVars, retryVars, worldVars, runVars, historyVars, sessionVars,
                   dl_symbols>>

\* Faulty variant of DownloadGet: the loop ends at the first get that raises.
DownloadGetStopping ==
    /\ dl_pc = "loop"
    /\ dl_todo # <<>>
    /\ \E ok \in BOOLEAN :
          /\ dl_gets' = Append(dl_gets, [symbol |-> Head(dl_todo), ok |-> ok])
          /\ dl_results' = DictWith(dl_results, Head(dl_todo), ok)
          /\ dl_todo' = IF ok THEN Tail(dl_todo) ELSE <<>>
    /\ UNCHANGED <<validatorVars, configVars, workerVars, retryVars, worldVars, runVars, historyVars, sessionVars,
                   dl_symbols, dl_pc, dl_calls>>

\* One turn of the loop: self._downloader.get(...) returns and the symbol's
\* result is True, or raises and it is False.
DownloadGet ==
    /\ dl_pc = "loop"
    /\ dl_todo # <<>>
    /\ \E ok \in BOOLEAN :
          /\ dl_gets' = Append(dl_gets, [symbol |-> Head(dl_todo), ok |-> ok])
          /\ dl_results' = DictWith(dl_results, Head(dl_todo), ok)
          /\ dl_todo' = Tail(dl_todo)
    /\ UNCHANGED <<validatorVars, configVars, workerVars, retryVars, worldVars, runVars, historyVars, sessionVars,
                   dl_symbols, dl_pc, dl_calls>>

\* return results
DownloadReturn ==
    /\ dl_pc = "loop"
    /\ dl_todo = <<>>
    /\ dl_pc' = "returned"
    /\ UNCHANGED <<validatorVars, configVars, workerVars, retryVars, worldVars, runVars, historyVars, sessionVars,
                   dl_symbols, dl_todo, dl_results, dl_gets, dl_calls>>

InitDownload ==
    /\ ValidatorIdle
    /\ PipelineIdle
    /\ ComponentsIdle

NextDownload ==
    \/ AddSymbol
    \/ DownloadStart
    \/ DownloadGet
    \/ DownloadReturn

SpecDownload == InitDownload /\ [][NextDownload]_vars

\* ------------------------------------------------------------------------
\* Properties of the downloader (checked under SpecDownload)
\* ------------------------------------------------------------------------

\* The get calls made for the symbol in the call in progress.
GetsFor(sym) == {k \in 1..Len(dl_gets) : dl_gets[k].symbol = sym}

\* C24: download_filings raises only when no symbol was added; while it
\* loops, every symbol not yet taken has had no get call and every other
\* one exactly one, whatever the calls before it did; and when it returns,
\* the map has one entry for each added symbol, True where the symbol's
\* get call returned and False where it raised.
C24_EverySymbolAttemptedOnce ==
    /\ dl_pc = "raised" => (dl_symbols = {} /\ dl_gets = <<>>)
    /\ dl_pc \in {"loop", "returned"} =>
          /\ \A sym \in dl_symbols :
                Cardinality(GetsFor(sym))
                   = (IF \E k \in 1..Len(dl_todo) : dl_todo[k] = sym THEN 0 ELSE 1)
          /\ \A k \in 1..Len(dl_gets) : dl_gets[k].symbol \in dl_symbols
    /\ dl_pc = "returned" =>
          /\ dl_todo = <<>>
          /\ DOMAIN dl_results = dl_symbols
          /\ \A k \in 1..Len(dl_gets) : dl_results[dl_gets[k].symbol] = dl_gets[k].ok

\* Three symbols, the first one's get raised, the others' returned.
C24_Witness ==
    /\ dl_pc = "returned"
    /\ Cardinality(dl_symbols) = 3
    /\ Len(dl_gets) = 3
    /\ ~dl_gets[1].ok
    /\ dl_gets[2].ok
    /\ dl_gets[3].ok
    /\ ~dl_results[dl_gets[1].symbol]
    /\ dl_results[dl_gets[3].symbol]

\* ------------------------------------------------------------------------
\* chains/sec_runnable.py: the callable built by build_sec_summarizer
\* ------------------------------------------------------------------------

\* The largest max_retries a summarizer is built with.
MaxRetries == 3

\* What llm.invoke may return: a document the schema accepts, one it
\* rejects, and one on which the adapter fails otherwise.
RawValid == <<"{\"summary\": \"Revenue up\"}">>

RawOffSchema == <<"{\"confidence\": 2}">>

RawUnreadable == <<"<unreadable>">>

LlmOutputs == {RawValid, RawOffSchema, RawUnreadable}

\* What llm.invoke may raise, as (type name, message).
LlmErrors == {<<"TimeoutError", "timed out">>, <<"RuntimeError", "CUDA out of memory">>}

\* SummaryPayload(summary=...)
SummaryOnly(text) == SummaryPayload(Some(text), None, None, None, None)

\* SummaryPayload(error=..., raw_output=...)
ErrorPayload(error, response) == SummaryPayload(None, None, None, Some(error), Some(response))

\* SummaryPayload.validate_from_json(raw)
ValidateFromJson(response) ==
    CASE response = RawValid     -> SummaryOnly(<<"Revenue up">>)
      [] response = RawOffSchema -> ErrorPayload(<<"Schema validation failed">>, response)
      [] OTHER              -> ErrorPayload(<<"JSON parse failed">>, response)

\* "%s: %s" % (type(last_err).__name__, last_err) if last_err else
\* "Unknown error"
ErrMsg(err) ==
    IF IsSome(err)
    THEN <<Get(err)[1], ": ", Get(err)[2]>>
    ELSE <<"Unknown error">>

\* {"summary": asdict(payload)}
SummaryDict(payload) == Some([summary |-> payload])

\* build_sec_summarizer(prompt=..., llm=..., require_json=..., max_retries=...)
\* and the call of the callable on one input: the prompt is formatted and
\* the loop is entered.
InvokeWithRetry ==
    /\ rt_pc = "idle"
    /\ \E m \in 0..MaxRetries, rj \in BOOLEAN :
          /\ max_retries' = m
          /\ rt_require_json' = rj
    /\ rt_pc' = "loop"
    /\ attempt' = 1
    /\ last_err' = None
    /\ llm_log' = <<>>
    /\ rt_result' = None
    /\ UNCHANGED <<validatorVars, configVars, workerVars, downloaderVars, worldVars, runVars, historyVars,
                   sessionVars>>

\* Faulty variant of LlmInvokeReturns: a response the schema rejects is
\* taken as a failed attempt and the loop goes on.
LlmInvokeRetryingInvalid ==
    /\ rt_pc = "loop"
    /\ attempt <= max_retries
    /\ \E response \in LlmOutputs :
          /\ llm_log' = Append(llm_log, [returned |-> TRUE, value |-> response])
          /\ IF rt_require_json /\ response # RawValid
             THEN /\ attempt' = attempt + 1
                  /\ UNCHANGED <<rt_result, rt_pc>>
             ELSE /\ rt_result' = SummaryDict(IF rt_require_json
                                           THEN ValidateFromJson(response)
                                           ELSE SummaryOnly(response))
                  /\ rt_pc' = "returned"
                  /\ UNCHANGED attempt
    /\ UNCHANGED <<validatorVars, configVars, workerVars, downloaderVars, worldVars, runVars, historyVars,
                   sessionVars, max_retries, rt_require_json, last_err>>

\* One turn of the loop in which llm.invoke(prompt_str) returns: the
\* payload is built and returned.
LlmInvokeReturns ==
    /\ rt_pc = "loop"
    /\ attempt <= max_retries
    /\ \E response \in LlmOutputs :
          /\ llm_log' = Append(llm_log, [returned |-> TRUE, value |-> response])
          /\ rt_result' = SummaryDict(IF rt_require_json
                                   THEN ValidateFromJson(response)
                                   ELSE SummaryOnly(response))
    /\ rt_pc' = "returned"
    /\ UNCHANGED <<validatorVars, configVars, workerVars, downloaderVars, worldVars, runVars, historyVars,
                   sessionVars, max_retries, rt_require_json, attempt, last_err>>

\* One turn of the loop in which llm.invoke(prompt_str) raises: the
\* exception is kept and logged, and the loop goes on.
LlmInvokeRaises ==
    /\ rt_pc = "loop"
    /\ attempt <= max_retries
    /\ \E e \in LlmErrors :
          /\ llm_log' = Append(llm_log, [returned |-> FALSE, value |-> e])
          /\ last_err' = Some(e)
    /\ attempt' = attempt + 1
    /\ UNCHANGED <<validatorVars, configVars, workerVars, downloaderVars, worldVars, runVars, historyVars,
                   sessionVars, max_retries, rt_require_json, rt_pc, rt_result>>

\* The loop has run out: the payload that reports the failure is returned.
RetriesExhausted ==
    /\ rt_pc = "loop"
    /\ attempt > max_retries
    /\ rt_result' = SummaryDict(ErrorPayload(<<"LLM invocation failed">>, ErrMsg(last_err)))
    /\ rt_pc' = "returned"
    /\ UNCHANGED <<validatorVars, configVars, workerVars, downloaderVars, worldVars, runVars, historyVars,
                   sessionVars, max_retries, rt_require_json, attempt, last_err, llm_log>>

InitRetry ==
    /\ ValidatorIdle
    /\ PipelineIdle
    /\ ComponentsIdle

NextRetry ==
    \/ InvokeWithRetry
    \/ LlmInvokeReturns
    \/ LlmInvokeRaises
    \/ RetriesExhausted

SpecRetry == InitRetry /\ [][NextRetry]_vars

\* The invocations of the call that raised
Raising == {k \in 1..Len(llm_log) : ~llm_log[k].returned}

\* C28: the callable invokes the LLM at most max_retries times for an
\* input; no invocation follows one that returned, and what the call then
\* returns is that response's payload, validated when require_json is set,
\* whether or not validation passed; the call returns on failure only after
\* max_retries invocations that all raised, with error 'LLM invocation
\* failed' and raw_output naming the last exception (none is there to name
\* when max_retries is 0); it never ends in any other way.
C28_RetryUntilFirstReturn ==
    /\ rt_pc \in {"idle", "loop", "returned"}
    /\ Len(llm_log) <= max_retries
    /\ \A k \in 1..Len(llm_log) : llm_log[k].returned => k = Len(llm_log)
    /\ rt_pc = "loop" => Raising = 1..Len(llm_log)
    /\ rt_pc = "returned" =>
          /\ IsSome(rt_result)
          /\ DOMAIN Get(rt_result) = {"summary"}
          /\ LET payload == Get(rt_result).summary
                 n == Len(llm_log)
             IN  IF n > 0 /\ llm_log[n].returned
                 THEN payload = (IF rt_require_json
                                 THEN ValidateFromJson(llm_log[n].value)
                                 ELSE SummaryOnly(llm_log[n].value))
                 ELSE /\ n = max_retries
                      /\ Raising = 1..n
                      /\ payload.error = Some(<<"LLM invocation failed">>)
                      /\ IsNone(payload.summary)
                      /\ payload.raw_output
                            = Some(IF n > 0
                                   THEN <<llm_log[n].value[1], ": ", llm_log[n].value[2]>>
                                   ELSE <<"Unknown error">>)

\* Both ends of a call are seen: two invocations raised and the failure was
\* reported with the second exception, or the first raised and the second
\* returned a document the schema rejects, which was returned as it is.
C28_Witness ==
    /\ rt_pc = "returned"
    /\ max_retries = 2
    /\ rt_require_json
    /\ Len(llm_log) = 2
    /\ ~llm_log[1].returned
    /\ llm_log[2].returned
    /\ llm_log[2].value = RawOffSchema
    /\ Get(rt_result).summary.error = Some(<<"Schema validation failed">>)

\* ------------------------------------------------------------------------
\* Pipeline._ensure_collection called by two workers of one pipeline
\* ------------------------------------------------------------------------

Workers == {1, 2}

\* client = self._ensure_qdrant(); self._embedder = self._ensure_embedder()
WorkerEnter(w) ==
    /\ wk_pc[w] = "idle"
    /\ \E name \in CollectionNames : wk_name' = [wk_name EXCEPT ![w] = name]
    /\ wk_pc' = [wk_pc EXCEPT ![w] = "entered"]
    /\ qdrant_client' = TRUE
    /\ embedder' = TRUE
    /\ store_log' = store_log \o EnsureQdrantCalls \o EnsureEmbedderCalls
    /\ UNCHANGED <<validatorVars, configVars, retryVars, downloaderVars, worldVars, pc, symbol,
                   download_ok, html_paths, collection_name, doc, relevant, inputs, summaries,
                   i, output_files, outcome, attempts, batch_log, upsert_ret, write_log,
                   sessionVars, wk_listed>>

\* collections = client.get_collections().collections, and the test on it:
\* the worker returns when its name is listed.
WorkerList(w) ==
    /\ wk_pc[w] = "entered"
    /\ wk_listed' = [wk_listed EXCEPT ![w] = collections]
    /\ wk_pc' = [wk_pc EXCEPT ![w] = IF wk_name[w] \in collections
                                      THEN "returned" ELSE "creating"]
    /\ store_log' = Append(store_log, StoreCall("get_collections", <<>>, <<>>, TRUE))
    /\ UNCHANGED <<validatorVars, configVars, retryVars, downloaderVars, worldVars, runVars,
                   upsert_ret, write_log, sessionVars, wk_name>>

\* client.create_collection(collection_name=collection_name, ...): the
\* store may refuse a name it holds by now, or take the call as it is.
WorkerCreate(w) ==
    /\ wk_pc[w] = "creating"
    /\ create_calls' = Append(create_calls, wk_name[w])
    /\ \E ok \in IF wk_name[w] \in collections THEN BOOLEAN ELSE {TRUE} :
          /\ wk_pc' = [wk_pc EXCEPT ![w] = IF ok THEN "returned" ELSE "raised"]
          /\ store_log' = Append(store_log,
                                 StoreCall("create_collection", wk_name[w], <<>>, ok))
    /\ collections' = collections \cup {wk_name[w]}
    /\ UNCHANGED <<validatorVars, configVars, retryVars, downloaderVars, filing_dir, points,
                   next_id, artifacts, runVars, upsert_ret, write_log, sessionVars, wk_name,
                   wk_listed>>

InitWorkers ==
    /\ ValidatorIdle
    /\ ComponentsIdle
    /\ dry_run = FALSE
    /\ batch_size = 1
    /\ require_json = TRUE
    /\ self_collection_name = None
    /\ qdrant_client = FALSE
    /\ embedder = FALSE
    /\ filing_dir = None
    /\ collections \in SUBSET CollectionNames
    /\ create_calls = <<>>
    /\ points = <<>>
    /\ next_id = 1
    /\ artifacts = <<>>
    /\ pc = "idle"
    /\ symbol = <<>>
    /\ download_ok = FALSE
    /\ html_paths = <<>>
    /\ collection_name = <<>>
    /\ doc = 0
    /\ relevant = <<>>
    /\ inputs = <<>>
    /\ summaries = <<>>
    /\ i = 0
    /\ output_files = <<>>
    /\ outcome = Running
    /\ attempts = <<>>
    /\ batch_log = <<>>
    /\ store_log = <<>>
    /\ upsert_ret = None
    /\ write_log = <<>>
    /\ symbols = <<>>
    /\ sym_idx = 0
    /\ run_log = <<>>
    /\ run_all = NoRunAll
    /\ call_log = <<>>

NextWorkers ==
    \E w \in Workers :
        \/ WorkerEnter(w)
        \/ WorkerList(w)
        \/ WorkerCreate(w)

SpecWorkers == InitWorkers /\ [][NextWorkers]_vars

\* C29: whatever the two workers do, create_collection is issued at most
\* once for a collection name.
C29_CreateIssuedOncePerName ==
    \A name \in CollectionNames :
        Cardinality({k \in 1..Len(create_calls) : create_calls[k] = name}) <= 1

\* ------------------------------------------------------------------------
\* Properties of the validator (checked under SpecValidate)
\* ------------------------------------------------------------------------

\* The fields of a decoded object d.
In(d, key) == DictGet(d.v, key)

KeysGiven(d) == {d.v[k][1] : k \in 1..Len(d.v)}

IsStrOrNull(x) == x.t \in {"str", "null"}

AllStrs(items) == \A k \in 1..Len(items) : IsStr(items[k])

ConfidenceInRange(n) == n >= ConfidenceMin /\ n <= ConfidenceMax

\* The declared schema, read on the decoded value d: five optional fields,
\* summary/error/raw_output strings, points a list of strings, confidence a
\* number within [0, 1].
WrongTypeButForPointsEntries(d) ==
    \/ ~IsDict(d)
    \/ ~IsStrOrNull(In(d, KSummary))
    \/ ~IsStrOrNull(In(d, KError))
    \/ ~IsStrOrNull(In(d, KRawOutput))
    \/ In(d, KConfidence).t \notin {"num", "null"}
    \/ In(d, KPoints).t \notin {"list", "null"}

WrongType(d) ==
    \/ WrongTypeButForPointsEntries(d)
    \/ (IsList(In(d, KPoints)) /\ ~AllStrs(In(d, KPoints).v))

ConfidenceOutOfRange(d) ==
    /\ IsDict(d)
    /\ In(d, KConfidence).t = "num"
    /\ ~ConfidenceInRange(In(d, KConfidence).v)

ViolatesSchema(d) == WrongType(d) \/ ConfidenceOutOfRange(d)

PayloadConfidenceInRange(p) ==
    IsSome(p.confidence) => ConfidenceInRange(Get(p.confidence))

\* C4: validate_from_json never raises, every payload it returns is a
\* success payload (error unset), a parse-error payload or a schema-error
\* payload, and a second call on the same text returns an equal payload.
C4_TotalThreeOutcomesIdempotent ==
    \A k \in 1..Len(calls) :
        /\ ~calls[k].raised
        /\ calls[k].payload.error \in {None, Some(ErrJsonParse), Some(ErrSchema)}
        /\ calls[k] = calls[1]

\* C5: every returned payload has summary or points populated, or error
\* populated, never both and never neither.
C5_ContentXorError ==
    \A k \in 1..Len(calls) :
        LET p == calls[k].payload
        IN  (IsSome(p.summary) \/ IsSome(p.points)) # IsSome(p.error)

\* C6: on text that does not decode as JSON the call returns a payload with
\* error "JSON parse failed", raw_output the text unchanged, and summary,
\* points and confidence unset.
C6_ParseFailurePayload ==
    calls # <<>> =>
        LET decoded == json_loads(raw)
        IN  \A k \in 1..Len(calls) :
                ~decoded.ok =>
                    /\ ~calls[k].raised
                    /\ calls[k].payload.error = Some(ErrJsonParse)
                    /\ calls[k].payload.raw_output = Some(raw)
                    /\ IsNone(calls[k].payload.summary)
                    /\ IsNone(calls[k].payload.points)
                    /\ IsNone(calls[k].payload.confidence)

C6_Witness ==
    /\ raw = NotJson
    /\ Len(calls) = 2
    /\ calls[2].payload.error = Some(ErrJsonParse)

NonBlank(x) == Len(Strip(x.v)) > 0

\* What is left of a list of string entries: the blank ones dropped ...
KeptEntries(items) ==
    LET kept == SelectSeq(items, NonBlank)
    IN  [k \in 1..Len(kept) |-> kept[k].v]

\* ... and each remaining one trimmed.
KeptEntriesTrimmed(items) ==
    LET kept == SelectSeq(items, NonBlank)
    IN  [k \in 1..Len(kept) |-> Strip(kept[k].v)]

\* The example of a well-formed response: {summary:'hi', points:['a'], confidence:0.5}
ExampleObject ==
    ObjectOf(Some(JStr(<<"h", "i">>)), Some(JList(<<JStr(<<"a">>)>>)), Some(JNum(5)),
             None)

IsSummaryObject(d) ==
    /\ IsDict(d)
    /\ KeysGiven(d) = {KSummary, KPoints, KConfidence}
    /\ IsStr(In(d, KSummary))
    /\ IsList(In(d, KPoints))
    /\ AllStrs(In(d, KPoints).v)
    /\ In(d, KConfidence).t = "num"
    /\ ConfidenceInRange(In(d, KConfidence).v)

StatusFollowsError(o) ==
    /\ ~o.raised
    /\ o.status \in {"ok", "error"}
    /\ (o.status = "ok") <=> IsNone(o.summary.error)

\* C9 as stated: an output has status 'ok' exactly when its payload's error
\* is None, else 'error'; a response that is a valid {summary, points,
\* confidence} object gives status 'ok' and the response's summary.
C9_StatusAndSummary ==
    IsSome(output) =>
        LET o == Get(output)
            decoded == json_loads(raw)
            d == decoded.val
        IN  /\ StatusFollowsError(o)
            /\ (decoded.ok /\ IsSummaryObject(d)) =>
                  /\ o.status = "ok"
                  /\ o.summary.summary = Some(In(d, KSummary).v)

\* C9 amended: the second half holds when JSON is required, and the summary
\* is the response's summary trimmed, or unset when nothing remains.
C9_StatusAndTrimmedSummary ==
    IsSome(output) =>
        LET o == Get(output)
            decoded == json_loads(raw)
            d == decoded.val
        IN  /\ StatusFollowsError(o)
            /\ (o.require_json /\ decoded.ok /\ IsSummaryObject(d)) =>
                  /\ o.status = "ok"
                  /\ o.summary.summary = IF NonBlank(In(d, KSummary))
                                          THEN Some(Strip(In(d, KSummary).v)) ELSE None

C9_Witness ==
    /\ IsSome(output)
    /\ raw = Dumps(ExampleObject)
    /\ Get(output).require_json
    /\ Get(output).status = "ok"
    /\ Get(output).summary.summary = Some(<<"h", "i">>)

====
